---- MODULE Spec2Model ----
(***************************************************************************)
(* The streaming decoders of the two chat clients:                         *)
(*   anthropic.Client.ChatStream  (src/anthropic/client.go)                *)
(*   openai.Client.ChatStream     (src/unnamed/part_000)                   *)
(* A response body is a sequence of '\n'-terminated lines, an unterminated *)
(* tail, and the way the transport ends (io.EOF or another read error).    *)
(* A line is a sequence of tokens: whitespace, the literal prefixes        *)
(* "data:" and "event:", free text that is not JSON, and JSON documents.   *)
(* bytes.TrimSpace, bytes.HasPrefix, bytes.TrimPrefix and json.Unmarshal   *)
(* are computed on the tokens.                                             *)
(***************************************************************************)
EXTENDS Integers, Sequences, FiniteSets, TLC

\* Longest body, in complete lines.
MaxLines == 3

----------------------------------------------------------------------------
(* JSON documents *)

\* One choice of an OpenAI streaming record.
MkChoice(content, finish, index) ==
    [Content |-> content, FinishReason |-> finish, Index |-> index]

\* A JSON object with no members; the other documents are built from it.
\*   syn      "null" | "scalar" (a number, string or array) | "object"
\*   typeK    the "type" member: "absent" | "string" | "number"
\*   indexK   the "index" member: "absent" | "number" | "string"
\*   choicesK the "choices" member: "absent" | "array" | "string"
\*   errK     the "error" member: "absent" | "object" | "string"
EmptyObject ==
    [syn |-> "object",
     typeK |-> "absent", typeS |-> "",
     indexK |-> "absent", indexV |-> 0,
     text |-> "",
     errK |-> "absent", errType |-> "", errMsg |-> "",
     id |-> "", object |-> "", created |-> 0, model |-> "",
     choicesK |-> "absent", choices |-> <<>>]

JsonNull == [EmptyObject EXCEPT !.syn = "null"]
JsonScalar == [EmptyObject EXCEPT !.syn = "scalar"]

TypedObject(kind) == [EmptyObject EXCEPT !.typeK = "string", !.typeS = kind]

----------------------------------------------------------------------------
(* Lines *)

Tok(t) == [t |-> t, j |-> JsonNull]
SP == Tok("sp")
CR == Tok("cr")
DATA == Tok("data:")
EVENT == Tok("event:")
TEXT == Tok("text")
\* the bytes of the word w, as in the line  event: message_stop
NAME(w) == Tok(w)
JSON(doc) == [t |-> "json", j |-> doc]

IsSpace(tok) == tok.t \in {"sp", "cr"}

RECURSIVE TrimLeft(_)
TrimLeft(s) ==
    IF s # <<>> /\ IsSpace(Head(s)) THEN TrimLeft(Tail(s)) ELSE s

RECURSIVE TrimRight(_)
TrimRight(s) ==
    IF s # <<>> /\ IsSpace(s[Len(s)])
    THEN TrimRight(SubSeq(s, 1, Len(s) - 1))
    ELSE s

TrimSpace(s) == TrimRight(TrimLeft(s))

\* prefix is a sequence of tokens
HasPrefix(s, prefix) ==
    /\ Len(s) >= Len(prefix)
    /\ SubSeq(s, 1, Len(prefix)) = prefix

TrimPrefix(s, prefix) ==
    IF HasPrefix(s, prefix) THEN SubSeq(s, Len(prefix) + 1, Len(s)) ELSE s

----------------------------------------------------------------------------
(* Error values.  kind is the dynamic type of the Go error, msg its text,  *)
(* raw the bytes of the input that the text quotes (no error of             *)
(* encoding/json or of these packages quotes the line it was made for).     *)

Nil == [kind |-> "nil", msg |-> "", raw |-> <<>>]
Pending == [kind |-> "pending", msg |-> "", raw |-> <<>>]
SyntaxError ==
    [kind |-> "*json.SyntaxError", msg |-> "invalid character", raw |-> <<>>]
UnmarshalTypeError ==
    [kind |-> "*json.UnmarshalTypeError", msg |-> "json: cannot unmarshal",
     raw |-> <<>>]
\* The failure of the transport while a line is being read.
ReadError == [kind |-> "transport", msg |-> "unexpected EOF", raw |-> <<>>]
\* The failure of httpClient.Do.
DoError ==
    [kind |-> "transport", msg |-> "connection refused", raw |-> <<>>]
\* fmt.Errorf without %w
Errorf(msg) == [kind |-> "*errors.errorString", msg |-> msg, raw |-> <<>>]
\* fmt.Errorf("...: %w", err)
ErrorfW(prefix, err) ==
    [kind |-> "*fmt.wrapError", msg |-> prefix \o err.msg, raw |-> err.raw]

\* DecodeFailure of an openai that words a decode failure as a read failure.
DecodeFailure_ReadWords(v, err, data) ==
    [kind |-> IF v = "anthropic" THEN err.kind ELSE "*errors.errorString",
     msg |-> IF v = "anthropic" THEN err.msg
             ELSE "failed to read response: " \o err.msg,
     raw |-> <<>>]

\* DecodeFailure that puts the bytes it could not decode into the error.
DecodeFailure_Quoting(v, err, data) ==
    [kind |-> IF v = "anthropic" THEN err.kind ELSE "*errors.errorString",
     msg |-> IF v = "anthropic" THEN err.msg
             ELSE "failed to unmarshal event: " \o err.msg,
     raw |-> data]

\* What ChatStream returns when json.Unmarshal of the bytes data returned
\* err: anthropic the error itself, openai its text behind a prefix.
DecodeFailure(v, err, data) ==
    IF v = "anthropic" THEN err
    ELSE Errorf("failed to unmarshal event: " \o err.msg)

----------------------------------------------------------------------------
(* encoding/json *)

\* json.Unmarshal accepts exactly one JSON value between optional whitespace.
ValidJSON(data) ==
    LET d == TrimSpace(data) IN Len(d) = 1 /\ d[1].t = "json"

Document(data) == TrimSpace(data)[1].j

\* UnmarshalErr with the error dropped: `_ = json.Unmarshal(...)`.
UnmarshalErr_Ignored(data, want) == Nil

\* want is the set of members the destination struct declares a typed field
\* for, among "type" (Type string), "index" (Index int), "choices"
\* (Choices []Choice) and "error" (Error struct{...}); members without a
\* field are ignored.
UnmarshalErr(data, want) ==
    IF ~ValidJSON(data) THEN SyntaxError
    ELSE LET doc == Document(data) IN
         CASE doc.syn = "null" -> Nil
           [] doc.syn = "scalar" -> UnmarshalTypeError
           [] OTHER ->
                IF \/ "type" \in want /\ doc.typeK = "number"
                   \/ "index" \in want /\ doc.indexK = "string"
                   \/ "choices" \in want /\ doc.choicesK = "string"
                   \/ "error" \in want /\ doc.errK = "string"
                THEN UnmarshalTypeError
                ELSE Nil

\* The value a string field `Type string` holds after a successful Unmarshal.
TypeOf(data) ==
    LET doc == Document(data) IN
    IF doc.syn = "object" /\ doc.typeK = "string" THEN doc.typeS ELSE ""

IndexOf(data) ==
    LET doc == Document(data) IN
    IF doc.syn = "object" /\ doc.indexK = "number" THEN doc.indexV ELSE 0

ChoicesOf(data) ==
    LET doc == Document(data) IN
    IF doc.syn = "object" /\ doc.choicesK = "array" THEN doc.choices ELSE <<>>

FieldOf(data, f) ==
    LET doc == Document(data) IN
    IF doc.syn = "object" THEN doc[f] ELSE ""

\* A string field of the nested Error struct.
ErrorFieldOf(data, f) ==
    LET doc == Document(data) IN
    IF doc.syn = "object" /\ doc.errK = "object" THEN doc[f] ELSE ""

----------------------------------------------------------------------------
(* Events handed to the callback.  One record shape serves both packages:  *)
(* kind is the Go type of the value (EventType() for anthropic, "chunk"    *)
(* for *openai.ChatChunk), the other fields are the fields of that value   *)
(* (zero where the type has no such field).                                *)

MkEvent(kind, type, index, text, id, finish) ==
    [kind |-> kind, Type |-> type, Index |-> index, Text |-> text,
     ID |-> id, FinishReason |-> finish,
     Object |-> "", Created |-> 0, Model |-> "", Choices |-> <<>>]

\* The eight cases of the switch in anthropic ChatStream.
KnownTypes ==
    {"ping", "message_start", "content_block_start", "content_block_delta",
     "content_block_stop", "message_delta", "message_stop", "error"}

\* WantedBy when every case decodes into the envelope alone.
WantedBy_TypeOnly(type) == {"type"}

\* The members each event struct declares besides those every struct ignores.
WantedBy(type) ==
    IF type \in {"content_block_start", "content_block_delta",
                 "content_block_stop"}
    THEN {"type", "index"}
    ELSE IF type = "error" THEN {"type", "error"}
    ELSE {"type"}

\* Terminal without the `return nil` of the message_stop case.
Terminal_NoReturn(type) == FALSE

\* The case of the switch that returns nil after its callback.
Terminal(type) == type = "message_stop"

\* The switch with the error case treated as one more event to deliver.
IsErrorCase_Missing(type) == FALSE

\* case "error"
IsErrorCase(type) == type = "error"

\* The typed event built by the second Unmarshal of a case.
AnthropicEvent(type, eventData) ==
    MkEvent(type,
            TypeOf(eventData),
            IF "index" \in WantedBy(type) THEN IndexOf(eventData) ELSE 0,
            IF type = "content_block_delta" THEN FieldOf(eventData, "text")
                                            ELSE "",
            "", "")

\* The default case, made strict: an unknown type fails the call.
UnknownType_Fails(type) ==
    [calls |-> <<>>, return |-> TRUE,
     err |-> Errorf("unknown event type: " \o type)]

\* The default case of the switch: log.Printf, and on to the next line.
UnknownType(type) == [calls |-> <<>>, return |-> FALSE, err |-> Nil]

\* EventField that acts on the name after event: as if it were the type of
\* a record: the line  event: message_stop  ends the call.
EventField_Dispatch(line) ==
    [calls |-> <<>>,
     return |-> line[Len(line)] = NAME("message_stop"),
     err |-> Nil]

\* A line that begins with event: is passed over, whatever it names.
EventField(line) == [calls |-> <<>>, return |-> FALSE, err |-> Nil]

\* AnthropicLine that, as a reader of text/event-stream would, takes only
\* the `data:` lines for payloads and skips every other line.
AnthropicLine_DataOnly(rawLine) ==
    LET line == TrimSpace(rawLine)
        eventData == TrimSpace(TrimPrefix(line, <<DATA>>))
        envelope == UnmarshalErr(eventData, {"type"})
        type == TypeOf(eventData)
        full == UnmarshalErr(eventData, WantedBy(type))
        Continue == [calls |-> <<>>, return |-> FALSE, err |-> Nil]
        Return(e) == [calls |-> <<>>, return |-> TRUE, err |-> e]
    IN  IF Len(line) = 0 THEN Continue
        ELSE IF ~HasPrefix(line, <<DATA>>) THEN Continue
        ELSE IF envelope # Nil
        THEN Return(DecodeFailure("anthropic", envelope, eventData))
        ELSE IF type \notin KnownTypes THEN UnknownType(type)
        ELSE IF full # Nil
        THEN Return(DecodeFailure("anthropic", full, eventData))
        ELSE IF IsErrorCase(type)
             THEN Return(Errorf(ErrorFieldOf(eventData, "errType") \o ": " \o
                                ErrorFieldOf(eventData, "errMsg")))
        ELSE [calls |-> <<AnthropicEvent(type, eventData)>>,
              return |-> Terminal(type),
              err |-> Nil]

\* One iteration of the loop of anthropic ChatStream on a line that was read:
\* the events passed to the callback, whether the function returns, and the
\* error it returns.
AnthropicLine(rawLine) ==
    LET line == TrimSpace(rawLine)
        eventData == TrimSpace(TrimPrefix(line, <<DATA>>))
        envelope == UnmarshalErr(eventData, {"type"})
        type == TypeOf(eventData)
        full == UnmarshalErr(eventData, WantedBy(type))
        Continue == [calls |-> <<>>, return |-> FALSE, err |-> Nil]
        Return(e) == [calls |-> <<>>, return |-> TRUE, err |-> e]
    IN  IF Len(line) = 0 THEN Continue
        ELSE IF HasPrefix(line, <<EVENT>>) THEN EventField(line)
        ELSE IF envelope # Nil
        THEN Return(DecodeFailure("anthropic", envelope, eventData))
        ELSE IF type \notin KnownTypes THEN UnknownType(type)
        ELSE IF full # Nil
        THEN Return(DecodeFailure("anthropic", full, eventData))
        ELSE IF IsErrorCase(type)
             THEN Return(Errorf(ErrorFieldOf(eventData, "errType") \o ": " \o
                                ErrorFieldOf(eventData, "errMsg")))
        ELSE [calls |-> <<AnthropicEvent(type, eventData)>>,
              return |-> Terminal(type),
              err |-> Nil]

\* OpenAIChunk that takes event.Choices[0] where the loop variable is meant.
OpenAIChunk_FirstChoice(ev, choice) ==
    [MkEvent("chunk", "", ev.Choices[1].Index, ev.Choices[1].Content, ev.ID,
             ev.Choices[1].FinishReason)
        EXCEPT !.Object = ev.Object, !.Created = ev.Created,
               !.Model = ev.Model, !.Choices = <<ev.Choices[1]>>]

\* OpenAIChunk that hands the Choices of the event over as they are.
OpenAIChunk_WholeEvent(ev, choice) ==
    [MkEvent("chunk", "", choice.Index, choice.Content, ev.ID,
             choice.FinishReason)
        EXCEPT !.Object = ev.Object, !.Created = ev.Created,
               !.Model = ev.Model, !.Choices = ev.Choices]

\* The chunk openai ChatStream builds for one choice of the decoded event:
\* ID, Object, Created and Model of the event, and a Choices of one Choice
\* (Index, Text and FinishReason are the fields of that Choice).
OpenAIChunk(ev, choice) ==
    [MkEvent("chunk", "", choice.Index, choice.Content, ev.ID,
             choice.FinishReason)
        EXCEPT !.Object = ev.Object, !.Created = ev.Created,
               !.Model = ev.Model,
               !.Choices = <<MkChoice(choice.Content, choice.FinishReason,
                                      choice.Index)>>]

\* OpenAILine that looks for an "error" member in the record and fails the
\* call with it.
OpenAILine_ErrorChecked(rawLine) ==
    LET trimmed == TrimSpace(rawLine)
        line == TrimPrefix(trimmed, <<DATA, SP>>)
        err == UnmarshalErr(line, {"choices"})
        NoEvent == [ID |-> "", Object |-> "", Created |-> 0, Model |-> "",
                    Choices |-> <<>>]
    IN  IF Len(trimmed) = 0
        THEN [event |-> NoEvent, return |-> FALSE, err |-> Nil]
        ELSE IF err # Nil
        THEN [event |-> NoEvent, return |-> TRUE,
              err |-> DecodeFailure("openai", err, line)]
        ELSE IF Document(line).errK # "absent"
        THEN [event |-> NoEvent, return |-> TRUE,
              err |-> Errorf(ErrorFieldOf(line, "errType") \o ": " \o
                             ErrorFieldOf(line, "errMsg"))]
        ELSE [event |-> [ID |-> FieldOf(line, "id"),
                         Object |-> FieldOf(line, "object"),
                         Created |-> FieldOf(line, "created"),
                         Model |-> FieldOf(line, "model"),
                         Choices |-> ChoicesOf(line)],
              return |-> FALSE, err |-> Nil]

\* The part of one iteration of openai ChatStream before the loop over the
\* choices: the decoded event, or the error returned.
OpenAILine(rawLine) ==
    LET trimmed == TrimSpace(rawLine)
        line == TrimPrefix(trimmed, <<DATA, SP>>)
        err == UnmarshalErr(line, {"choices"})
        NoEvent == [ID |-> "", Object |-> "", Created |-> 0, Model |-> "",
                    Choices |-> <<>>]
    IN  IF Len(trimmed) = 0
        THEN [event |-> NoEvent, return |-> FALSE, err |-> Nil]
        ELSE IF err # Nil
        THEN [event |-> NoEvent, return |-> TRUE,
              err |-> DecodeFailure("openai", err, line)]
        ELSE [event |-> [ID |-> FieldOf(line, "id"),
                         Object |-> FieldOf(line, "object"),
                         Created |-> FieldOf(line, "created"),
                         Model |-> FieldOf(line, "model"),
                         Choices |-> ChoicesOf(line)],
              return |-> FALSE, err |-> Nil]

----------------------------------------------------------------------------
(* Response bodies *)

Framed(doc) == <<DATA, SP, JSON(doc)>>

\* data: {"type":"content_block_delta","index":1,"delta":{"text":"Hi"}}
DeltaDoc ==
    [TypedObject("content_block_delta") EXCEPT
        !.indexK = "number", !.indexV = 1, !.text = "Hi"]

\* data: {"type":"error","error":{"type":"overloaded_error","message":"Overloaded"}}
ErrorDoc ==
    [TypedObject("error") EXCEPT
        !.errK = "object", !.errType = "overloaded_error", !.errMsg = "Overloaded"]

AnthropicLines ==
    {Framed(TypedObject(k)) : k \in KnownTypes \ {"content_block_delta"}}
    \cup
    {Framed(DeltaDoc),
     Framed([DeltaDoc EXCEPT !.indexK = "string"]),  \* "index":"1"
     Framed(ErrorDoc),
     Framed([TypedObject("error") EXCEPT !.errK = "string"]),
     Framed(TypedObject("tool_use_delta")),          \* a kind of the future
     <<DATA, SP, TEXT>>,                             \* data: {"type":
     <<EVENT, SP, NAME("message_stop")>>,
     <<>>,                                           \* the blank separator
     <<CR>>}

\* {"id":"c1","object":"chat.completion.chunk","created":1,"model":"m1",
\*  "choices":[{"delta":{"content":c},"finish_reason":f,"index":i}]}
ChunkDoc(choices) ==
    [EmptyObject EXCEPT !.id = "c1", !.object = "chat.completion.chunk",
                        !.created = 1, !.model = "m1",
                        !.choicesK = "array", !.choices = choices]

OpenAILines ==
    {Framed(ChunkDoc(<<MkChoice("Hi", "", 0)>>)),
     Framed(ChunkDoc(<<MkChoice("", "stop", 0)>>)),
     Framed(ChunkDoc(<<MkChoice("", "length", 0)>>)),
     Framed(ChunkDoc(<<MkChoice("a", "", 0), MkChoice("b", "", 1)>>)),
     Framed([ChunkDoc(<<MkChoice("a", "stop", 0), MkChoice("b", "", 1)>>)
                EXCEPT !.id = "c2", !.created = 2, !.model = "m2"]),
     Framed(ChunkDoc(<<>>)),                         \* "choices":[]
     Framed(ErrorDoc),                               \* no "choices" member
     Framed([ChunkDoc(<<>>) EXCEPT !.choicesK = "string"]),  \* "choices":"none"
     <<DATA, SP, TEXT>>,                             \* data: [DONE]
     <<EVENT, SP, TEXT>>,                            \* event: message
     <<DATA, JSON(ChunkDoc(<<MkChoice("Hi", "", 0)>>))>>,  \* data:{...}
     <<>>,
     <<CR>>}

LinesOf(v) == IF v = "anthropic" THEN AnthropicLines ELSE OpenAILines

\* The unterminated bytes before the end of the body: none, or a terminal
\* record whose '\n' never arrived.
TailsOf(v) ==
    IF v = "anthropic"
    THEN {<<>>, Framed(TypedObject("message_stop"))}
    ELSE {<<>>, Framed(ChunkDoc(<<MkChoice("", "stop", 0)>>))}

BoundedSeq(S, n) == UNION {[1..k -> S] : k \in 0..n}

\* lines: the '\n'-terminated lines, without their '\n';
\* end: "eof" when the body ends with io.EOF, "err" when the read fails.
Bodies(v) ==
    [lines : BoundedSeq(LinesOf(v), MaxLines),
     tail : TailsOf(v),
     end : {"eof", "err"}]

NoBody == [lines |-> <<>>, tail |-> <<>>, end |-> "eof"]

----------------------------------------------------------------------------
(* The error body of a response whose status is not 200 *)

ErrorBodies == {<<JSON(ErrorDoc)>>, <<TEXT>>, <<>>}

EOF == [kind |-> "*errors.errorString", msg |-> "EOF", raw |-> <<>>]

\* json.NewDecoder(r).Decode: the first JSON value of the stream.
DecodeErr(data, want) ==
    LET d == TrimLeft(data) IN
    IF d = <<>> THEN EOF
    ELSE IF d[1].t # "json" THEN SyntaxError
    ELSE UnmarshalErr(<<d[1]>>, want)

decodeError(v, errBody) ==
    LET err == DecodeErr(errBody, IF v = "anthropic" THEN {"type", "error"}
                                                     ELSE {"error"})
        doc == TrimLeft(errBody)
    IN  IF err # Nil
        THEN ErrorfW("error decoding error response: ", err)
        ELSE Errorf(ErrorFieldOf(doc, "errType") \o ": " \o
                    ErrorFieldOf(doc, "errMsg"))

----------------------------------------------------------------------------
(* State *)

VARIABLES
    variant,    \* the package whose ChatStream is running
    reqStream,  \* req.Stream of the caller's request
    status,     \* resp.StatusCode, 0 before there is a response
    closed,     \* number of calls of resp.Body.Close()
    body,       \* the response body
    pos,        \* complete lines the reader has handed out
    reads,      \* calls of reader.ReadBytes
    pc,         \* "idle", "read", "choices" (openai's inner loop), "returned"
    event,      \* openai: the event decoded from the current line
    ci,         \* openai: position in event.Choices
    delivered,  \* the calls of callback, in the order they were made
    result,     \* the error ChatStream returned
    cancelled,  \* the caller has cancelled ctx
    buffered,   \* lines the bufio.Reader held when ctx was cancelled
    running,    \* calls of callback that have not returned yet
    client,     \* the fields of the *Client the calls are made on
    log,        \* the calls of ChatStream that have returned, oldest first
    op,         \* the method the caller called, "none" before the call
    req,        \* the fields of the caller's request other than Stream
    sent        \* the bodies of the HTTP requests handed to httpClient.Do

vars ==
    <<variant, reqStream, status, closed, body, pos, reads, pc, event, ci,
      delivered, result, cancelled, buffered, running, client, log, op, req,
      sent>>

NoEvent == [ID |-> "", Object |-> "", Created |-> 0, Model |-> "",
                    Choices |-> <<>>]

\* The Client that New returns.
NewClient ==
    [baseURL |-> "defaultBaseURL", token |-> "token",
     httpClient |-> "http.DefaultClient"]

\* A request of the caller, without its Stream.
DefaultRequest == [Model |-> "m1", MaxTokens |-> 1]

\* json.Marshal(req) of a ChatRequest: "stream" has omitempty in both
\* packages and is left out when Stream is false; "max_tokens" has omitempty
\* in openai only.
Marshal(v, r, stream) ==
    [members |-> {"model"}
                 \cup (IF v = "openai" /\ r.MaxTokens = 0
                       THEN {} ELSE {"max_tokens"})
                 \cup (IF stream THEN {"stream"} ELSE {}),
     model |-> r.Model,
     max_tokens |-> r.MaxTokens,
     stream |-> stream]

\* c.request / c.requestJSON: the marshalled request goes to httpClient.Do.
Sends(v, stream) == sent' = Append(sent, Marshal(v, req, stream))

\* The state before the call, the request being one of requests.
Start(requests) ==
    /\ variant = "none"
    /\ reqStream \in BOOLEAN
    /\ status = 0
    /\ closed = 0
    /\ body = NoBody
    /\ pos = 0
    /\ reads = 0
    /\ pc = "idle"
    /\ event = NoEvent
    /\ ci = 0
    /\ delivered = <<>>
    /\ result = Pending
    /\ cancelled = FALSE
    /\ buffered = 0
    /\ running = 0
    /\ client = NewClient
    /\ log = <<>>
    /\ op = "none"
    /\ req \in requests
    /\ sent = <<>>

Init == Start({DefaultRequest})

\* A call of callback for the event ev decoded from line n, choice c.
Call(ev, n, c) == [ev |-> ev, pos |-> n, ci |-> c]

\* Return with the `defer resp.Body.Close()` forgotten.
Return_NoClose(err, haveResp) ==
    /\ result' = err
    /\ pc' = "returned"
    /\ closed' = closed

\* return err, with the deferred resp.Body.Close() when there is a response
Return(err, haveResp) ==
    /\ result' = err
    /\ pc' = "returned"
    /\ closed' = IF haveResp THEN closed + 1 ELSE closed

\* ChatStream up to the loop: req.Stream = true, the request, the status.
RequestFails(v) ==
    /\ pc = "idle"
    /\ variant' = v
    /\ reqStream' = TRUE
    /\ Sends(v, TRUE) \/ UNCHANGED sent
    /\ op' = "ChatStream"
    /\ Return(IF v = "anthropic"
              THEN DoError
              ELSE Errorf("failed to perform request: " \o DoError.msg),
              FALSE)
    /\ UNCHANGED <<status, body, pos, reads, event, ci, delivered, cancelled, buffered, running, client, log, req>>

\* The status codes of the responses that are not http.StatusOK.
OtherStatuses == {201, 429, 500}

\* resp.Body of a response that is not an event stream: its bytes, with no
\* line among them.
ErrorBody(errBody) == [lines |-> <<>>, tail |-> errBody, end |-> "eof"]

\* RequestNot200 without `if resp.StatusCode != http.StatusOK`: the body of
\* every response goes to the loop.
RequestNot200_NoStatusCheck(v) ==
    /\ pc = "idle"
    /\ variant' = v
    /\ reqStream' = TRUE
    /\ Sends(v, TRUE)
    /\ op' = "ChatStream"
    /\ \E code \in OtherStatuses : status' = code
    /\ \E errBody \in ErrorBodies : body' = ErrorBody(errBody)
    /\ pc' = "read"
    /\ UNCHANGED <<closed, result, pos, reads, event, ci, delivered,
                   cancelled, buffered, running, client, log, req>>

\* c.request returns a response whose StatusCode is not 200: ChatStream
\* returns c.decodeError(resp).
RequestNot200(v) ==
    /\ pc = "idle"
    /\ variant' = v
    /\ reqStream' = TRUE
    /\ Sends(v, TRUE)
    /\ op' = "ChatStream"
    /\ \E code \in OtherStatuses : status' = code
    /\ \E errBody \in ErrorBodies :
          /\ body' = ErrorBody(errBody)
          /\ Return(decodeError(v, errBody), TRUE)
    /\ UNCHANGED <<pos, reads, event, ci, delivered, cancelled, buffered,
                   running, client, log, req>>

Request200(v) ==
    /\ pc = "idle"
    /\ variant' = v
    /\ reqStream' = TRUE
    /\ Sends(v, TRUE)
    /\ op' = "ChatStream"
    /\ status' = 200
    /\ \E b \in Bodies(v) : body' = b
    /\ pc' = "read"
    /\ UNCHANGED <<closed, pos, reads, event, ci, delivered, result, cancelled, buffered, running, client, log, req>>

\* The error of a read of resp.Body after ctx was cancelled.
ContextCanceled ==
    [kind |-> "transport", msg |-> "context canceled", raw |-> <<>>]

\* What ChatStream returns when the read fails because ctx was cancelled.
Canceled(v) ==
    IF v = "anthropic" THEN ContextCanceled
    ELSE Errorf("failed to read response: " \o ContextCanceled.msg)

\* reader.ReadBytes finds its next bytes without a read of resp.Body that
\* fails: ctx is not cancelled, or the bytes were in the buffer of the
\* bufio.Reader before it was.
InBuffer == ~cancelled \/ pos < buffered

\* EndResult that reports io.EOF like any other error.
EndResult_EOFIsError(v, end) ==
    IF v = "anthropic" THEN ReadError
    ELSE Errorf("failed to read response: " \o ReadError.msg)

\* EndResult that leaves the loop on every error.
EndResult_BreakOnAny(v, end) == Nil

\* What ChatStream returns when reader.ReadBytes returns err != nil:
\* break and return nil on io.EOF, the error otherwise.
EndResult(v, end) ==
    IF end = "eof" THEN Nil
    ELSE IF v = "anthropic" THEN ReadError
    ELSE Errorf("failed to read response: " \o ReadError.msg)

\* ReadEnd with `continue` where io.EOF should `break`: at the end of a body
\* the loop reads io.EOF again and again and the call never returns.
ReadEnd_ContinueOnEOF ==
    /\ pc = "read"
    /\ pos = Len(body.lines) \/ ~InBuffer
    /\ reads' = reads + 1
    /\ IF InBuffer /\ body.end = "eof"
       THEN UNCHANGED <<result, pc, closed>>
       ELSE Return(IF InBuffer THEN EndResult(variant, body.end)
                               ELSE Canceled(variant),
                   TRUE)
    /\ UNCHANGED <<variant, reqStream, status, body, pos, event, ci, delivered,
                   cancelled, buffered, running, client, log, op, req, sent>>

\* ReadEnd that decodes, at io.EOF, the bytes that came back with the error
\* as one more line.
ReadEnd_DecodeTail ==
    /\ pc = "read"
    /\ pos = Len(body.lines) \/ ~InBuffer
    /\ reads' = reads + 1
    /\ Return(IF InBuffer THEN EndResult(variant, body.end)
                          ELSE Canceled(variant),
              TRUE)
    /\ delivered' =
          IF InBuffer /\ body.end = "eof" /\ body.tail # <<>>
          THEN IF variant = "anthropic"
               THEN LET r == AnthropicLine(body.tail) IN
                    delivered \o
                       [i \in 1..Len(r.calls) |-> Call(r.calls[i], pos + 1, 1)]
               ELSE LET r == OpenAILine(body.tail) IN
                    delivered \o
                       [i \in 1..Len(r.event.Choices) |->
                           Call(OpenAIChunk(r.event, r.event.Choices[i]),
                                pos + 1, i)]
          ELSE delivered
    /\ UNCHANGED <<variant, reqStream, status, body, pos, event, ci,
                   cancelled, buffered, running, client, log, op, req, sent>>

\* reader.ReadBytes('\n') returns err != nil: no '\n' is left in the body.
\* The bytes of body.tail come back with the error and are dropped.
ReadEnd ==
    /\ pc = "read"
    /\ pos = Len(body.lines) \/ ~InBuffer
    /\ reads' = reads + 1
    /\ Return(IF InBuffer THEN EndResult(variant, body.end)
                          ELSE Canceled(variant),
              TRUE)
    /\ UNCHANGED <<variant, reqStream, status, body, pos, event, ci, delivered,
                   cancelled, buffered, running, client, log, op, req, sent>>

\* One iteration of the loop of anthropic ChatStream on a complete line.
AnthropicReadLine ==
    /\ pc = "read"
    /\ variant = "anthropic"
    /\ pos < Len(body.lines)
    /\ InBuffer
    /\ reads' = reads + 1
    /\ pos' = pos + 1
    /\ LET r == AnthropicLine(body.lines[pos + 1]) IN
       /\ delivered' = delivered \o
              [i \in 1..Len(r.calls) |-> Call(r.calls[i], pos + 1, 1)]
       /\ IF r.return
          THEN Return(r.err, TRUE)
          ELSE UNCHANGED <<result, pc, closed>>
    /\ UNCHANGED <<variant, reqStream, status, body, event, ci, cancelled, buffered, running, client, log, op, req, sent>>

\* One iteration of the loop of openai ChatStream on a complete line, up to
\* the loop over event.Choices.
OpenAIReadLine ==
    /\ pc = "read"
    /\ variant = "openai"
    /\ pos < Len(body.lines)
    /\ InBuffer
    /\ reads' = reads + 1
    /\ pos' = pos + 1
    /\ LET r == OpenAILine(body.lines[pos + 1]) IN
       /\ event' = r.event
       /\ ci' = 1
       /\ IF r.return
          THEN Return(r.err, TRUE)
          ELSE /\ pc' = IF Len(r.event.Choices) = 0 THEN "read" ELSE "choices"
               /\ UNCHANGED <<result, closed>>
    /\ UNCHANGED <<variant, reqStream, status, body, delivered, cancelled, buffered, running, client, log, op, req, sent>>

\* Finished without the `return nil` after the callback.
Finished_Never(choice) == FALSE

\* Finished that knows only the "stop" reason.
Finished_OnlyStop(choice) == choice.FinishReason = "stop"

\* choice.FinishReason != ""
Finished(choice) == choice.FinishReason # ""

\* One iteration of the loop over event.Choices of openai ChatStream.
OpenAIChoice ==
    /\ pc = "choices"
    /\ LET choice == event.Choices[ci] IN
       /\ delivered' = Append(delivered,
                              Call(OpenAIChunk(event, choice), pos, ci))
       /\ IF Finished(choice)
          THEN Return(Nil, TRUE) /\ UNCHANGED ci
          ELSE /\ ci' = ci + 1
               /\ pc' = IF ci = Len(event.Choices) THEN "read" ELSE "choices"
               /\ UNCHANGED <<result, closed>>
    /\ UNCHANGED <<variant, reqStream, status, body, pos, reads, event, cancelled, buffered, running, client, log, op, req, sent>>

\* The caller cancels ctx while ChatStream runs.  The lines that reached the
\* bufio.Reader with an earlier read of resp.Body stay in its buffer (none
\* before the first ReadBytes); every later read of resp.Body fails.
Cancel ==
    /\ pc \in {"read", "choices"}
    /\ ~cancelled
    /\ cancelled' = TRUE
    /\ \E k \in pos..(IF reads = 0 THEN pos ELSE Len(body.lines)) :
          buffered' = k
    /\ UNCHANGED <<variant, reqStream, status, closed, body, pos, reads, pc,
                   event, ci, delivered, result, running, client, log, op, req, sent>>

Next ==
    \/ \E v \in {"anthropic", "openai"} : RequestFails(v)
    \/ \E v \in {"anthropic", "openai"} : RequestNot200(v)
    \/ \E v \in {"anthropic", "openai"} : Request200(v)
    \/ ReadEnd
    \/ AnthropicReadLine
    \/ OpenAIReadLine
    \/ OpenAIChoice

Spec == Init /\ [][Next]_vars

\* ChatStream with a caller that may cancel ctx.
SpecCancel == Init /\ [][Next \/ Cancel]_vars

----------------------------------------------------------------------------
(* The callback as a call that takes time: pc is "callback" from the call  *)
(* of callback(ctx, ev) to its return.                                     *)

\* Blocks when the statement is `go callback(ctx, ev)`.
Blocks_Go == FALSE

\* callback(ctx, ev) is a plain call: the loop goes on when it has returned.
Blocks == TRUE

\* anthropic ChatStream behind the callback for line n: `return nil` in the
\* message_stop case, the next iteration otherwise.
AnthropicAfter(n) ==
    LET r == AnthropicLine(body.lines[n]) IN
    IF r.return
    THEN Return(r.err, TRUE)
    ELSE pc' = "read" /\ UNCHANGED <<result, closed>>

\* openai ChatStream behind the callback for event.Choices[ci].
OpenAIAfter ==
    IF Finished(event.Choices[ci])
    THEN Return(Nil, TRUE) /\ UNCHANGED ci
    ELSE /\ ci' = ci + 1
         /\ pc' = IF ci = Len(event.Choices) THEN "read" ELSE "choices"
         /\ UNCHANGED <<result, closed>>

\* One iteration of the loop of anthropic ChatStream, up to the call of the
\* callback when the line holds an event.
AnthropicReadLineCall ==
    /\ pc = "read"
    /\ variant = "anthropic"
    /\ pos < Len(body.lines)
    /\ InBuffer
    /\ reads' = reads + 1
    /\ pos' = pos + 1
    /\ LET r == AnthropicLine(body.lines[pos + 1]) IN
       /\ delivered' = delivered \o
              [i \in 1..Len(r.calls) |-> Call(r.calls[i], pos + 1, 1)]
       /\ IF r.calls = <<>>
          THEN /\ running' = running
               /\ IF r.return
                  THEN Return(r.err, TRUE)
                  ELSE UNCHANGED <<result, pc, closed>>
          ELSE /\ running' = running + 1
               /\ IF Blocks
                  THEN pc' = "callback" /\ UNCHANGED <<result, closed>>
                  ELSE AnthropicAfter(pos + 1)
    /\ UNCHANGED <<variant, reqStream, status, body, event, ci, cancelled,
                   buffered, client, log, op, req, sent>>

\* One iteration of the loop over event.Choices, up to the call of the
\* callback.
OpenAIChoiceCall ==
    /\ pc = "choices"
    /\ delivered' = Append(delivered,
                           Call(OpenAIChunk(event, event.Choices[ci]), pos, ci))
    /\ running' = running + 1
    /\ IF Blocks
       THEN pc' = "callback" /\ UNCHANGED <<ci, result, closed>>
       ELSE OpenAIAfter
    /\ UNCHANGED <<variant, reqStream, status, body, pos, reads, event,
                   cancelled, buffered, client, log, op, req, sent>>

\* A call of the callback returns; the loop that waited for it goes on.
CallbackReturns ==
    /\ running > 0
    /\ running' = running - 1
    /\ IF pc = "callback"
       THEN IF variant = "anthropic"
            THEN AnthropicAfter(pos) /\ UNCHANGED ci
            ELSE OpenAIAfter
       ELSE UNCHANGED <<pc, ci, result, closed>>
    /\ UNCHANGED <<variant, reqStream, status, body, pos, reads, event,
                   delivered, cancelled, buffered, client, log, op, req, sent>>

NextSync ==
    \/ \E v \in {"anthropic", "openai"} : RequestFails(v)
    \/ \E v \in {"anthropic", "openai"} : RequestNot200(v)
    \/ \E v \in {"anthropic", "openai"} : Request200(v)
    \/ ReadEnd
    \/ AnthropicReadLineCall
    \/ OpenAIReadLine
    \/ OpenAIChoiceCall
    \/ CallbackReturns

\* ChatStream with the calls of the callback taking time.
SpecSync == Init /\ [][NextSync]_vars

----------------------------------------------------------------------------
(* Several calls of ChatStream on one Client, one after the other *)

MaxCalls == 3
MaxCallLines == 1

\* The lines of the bodies of these calls: an event, the terminal event, a
\* malformed record.
CallLines(v) ==
    IF v = "anthropic"
    THEN {Framed(DeltaDoc), Framed(TypedObject("message_stop")),
          <<DATA, SP, TEXT>>}
    ELSE {Framed(ChunkDoc(<<MkChoice("Hi", "", 0)>>)),
          Framed(ChunkDoc(<<MkChoice("", "stop", 0)>>)),
          <<DATA, SP, TEXT>>}

CallBodies(v) ==
    [lines : BoundedSeq(CallLines(v), MaxCallLines),
     tail : {<<>>},
     end : {"eof"}]

\* A Client belongs to one package: every call on it is of that package.
SameClient(v) == variant \in {"none", v}

\* Request200 with the body taken from CallBodies.
Request200OfCall(v) ==
    /\ pc = "idle"
    /\ variant' = v
    /\ reqStream' = TRUE
    /\ Sends(v, TRUE)
    /\ op' = "ChatStream"
    /\ status' = 200
    /\ \E b \in CallBodies(v) : body' = b
    /\ pc' = "read"
    /\ UNCHANGED <<closed, pos, reads, event, ci, delivered, result, cancelled,
                   buffered, running, client, log, req>>

\* NewReader of a ChatStream that keeps its reader in the Client.
NewReader_Shared == pos

\* reader := bufio.NewReader(resp.Body): a reader of its own for each call,
\* at the start of the body.
NewReader == 0

\* The caller, after a call has returned, makes the next one on the same
\* Client.  What the call that returned was given and what it did goes to
\* the log; resp, reader, line, event and the other locals of ChatStream
\* begin anew.
NextCall ==
    /\ pc = "returned"
    /\ Len(log) < MaxCalls - 1
    /\ log' = Append(log, [status |-> status,
                           body |-> body,
                           events |-> [i \in 1..Len(delivered) |->
                                          delivered[i].ev],
                           result |-> result])
    /\ pc' = "idle"
    /\ reqStream' \in BOOLEAN
    /\ status' = 0
    /\ closed' = 0
    /\ body' = NoBody
    /\ pos' = NewReader
    /\ reads' = 0
    /\ event' = NoEvent
    /\ ci' = 0
    /\ delivered' = <<>>
    /\ result' = Pending
    /\ op' = "none"
    /\ sent' = <<>>
    /\ UNCHANGED <<variant, cancelled, buffered, running, client, req>>

NextCalls ==
    \/ \E v \in {"anthropic", "openai"} : SameClient(v) /\ RequestFails(v)
    \/ \E v \in {"anthropic", "openai"} : SameClient(v) /\ Request200OfCall(v)
    \/ ReadEnd
    \/ AnthropicReadLine
    \/ OpenAIReadLine
    \/ OpenAIChoice
    \/ NextCall

SpecCalls == Init /\ [][NextCalls]_vars

----------------------------------------------------------------------------
(* Chat, the call without streaming, next to ChatStream *)

\* The requests of the callers of Chat and ChatStream.
ChatRequests == [Model : {"m1", "m2"}, MaxTokens : {0, 1}]

InitChat == Start(ChatRequests)

\* The bodies of the responses to Chat: a message, and bytes that are not
\* JSON.
ChatResponses == {<<JSON([EmptyObject EXCEPT !.id = "msg1"])>>, <<TEXT>>}

\* Chat: c.request returns err.
ChatFails(v) ==
    /\ pc = "idle"
    /\ variant' = v
    /\ reqStream' = FALSE
    /\ Sends(v, FALSE) \/ UNCHANGED sent
    /\ op' = "Chat"
    /\ Return(IF v = "anthropic"
              THEN DoError
              ELSE Errorf("failed to perform request: " \o DoError.msg),
              FALSE)
    /\ UNCHANGED <<status, body, pos, reads, event, ci, delivered, cancelled,
                   buffered, running, client, log, req>>

\* Chat: the status of the response is not 200.
ChatNot200(v) ==
    /\ pc = "idle"
    /\ variant' = v
    /\ reqStream' = FALSE
    /\ Sends(v, FALSE)
    /\ op' = "Chat"
    /\ \E code \in OtherStatuses : status' = code
    /\ \E errBody \in ErrorBodies :
          /\ body' = ErrorBody(errBody)
          /\ Return(decodeError(v, errBody), TRUE)
    /\ UNCHANGED <<pos, reads, event, ci, delivered, cancelled, buffered,
                   running, client, log, req>>

\* Chat200 that sends the request with the Stream the caller gave it.
Chat200_StreamAsGiven(v) ==
    /\ pc = "idle"
    /\ variant' = v
    /\ Sends(v, reqStream)
    /\ op' = "Chat"
    /\ status' = 200
    /\ \E data \in ChatResponses :
          LET err == DecodeErr(data, IF v = "anthropic" THEN {"type"}
                                                        ELSE {"choices"})
          IN  /\ body' = ErrorBody(data)
              /\ event' = IF err = Nil
                          THEN [NoEvent EXCEPT !.ID = FieldOf(TrimLeft(data), "id")]
                          ELSE NoEvent
              /\ Return(IF err = Nil \/ v = "anthropic" THEN err
                        ELSE Errorf("failed to decode response: " \o err.msg),
                        TRUE)
    /\ UNCHANGED <<reqStream, pos, reads, ci, delivered, cancelled, buffered,
                   running, client, log, req>>

\* Chat: the status is 200 and the body is decoded into the message that
\* Chat returns (event holds it) next to the error.
Chat200(v) ==
    /\ pc = "idle"
    /\ variant' = v
    /\ reqStream' = FALSE
    /\ Sends(v, FALSE)
    /\ op' = "Chat"
    /\ status' = 200
    /\ \E data \in ChatResponses :
          LET err == DecodeErr(data, IF v = "anthropic" THEN {"type"}
                                                        ELSE {"choices"})
          IN  /\ body' = ErrorBody(data)
              /\ event' = IF err = Nil
                          THEN [NoEvent EXCEPT !.ID = FieldOf(TrimLeft(data), "id")]
                          ELSE NoEvent
              /\ Return(IF err = Nil \/ v = "anthropic" THEN err
                        ELSE Errorf("failed to decode response: " \o err.msg),
                        TRUE)
    /\ UNCHANGED <<pos, reads, ci, delivered, cancelled, buffered, running,
                   client, log, req>>

NextChat ==
    \/ \E v \in {"anthropic", "openai"} : ChatFails(v)
    \/ \E v \in {"anthropic", "openai"} : ChatNot200(v)
    \/ \E v \in {"anthropic", "openai"} : Chat200(v)
    \/ \E v \in {"anthropic", "openai"} : RequestFails(v)
    \/ \E v \in {"anthropic", "openai"} : RequestNot200(v)
    \/ \E v \in {"anthropic", "openai"} : Request200OfCall(v)
    \/ ReadEnd
    \/ AnthropicReadLine
    \/ OpenAIReadLine
    \/ OpenAIChoice

SpecChat == InitChat /\ [][NextChat]_vars

----------------------------------------------------------------------------
(* anthropic: bodies with lines that are neither `event:` nor `data:` *)

MaxBareLines == 3

\* the bytes  id:  and  :  at the start of a line
ID == Tok("id:")
COLON == Tok(":")

\* A framed record, the same record and the terminal record without
\* `data:`, an `id: 1` field, a `: ping` comment, an `event:` field.
BareLines ==
    {Framed(DeltaDoc),
     <<JSON(DeltaDoc)>>,
     <<JSON(TypedObject("message_stop"))>>,
     <<ID, SP, TEXT>>,
     <<COLON, SP, TEXT>>,
     <<EVENT, SP, NAME("message_stop")>>}

BareBodies ==
    [lines : BoundedSeq(BareLines, MaxBareLines),
     tail : {<<>>},
     end : {"eof", "err"}]

\* Request200 of anthropic with the body taken from BareBodies.
Request200Bare ==
    /\ pc = "idle"
    /\ variant' = "anthropic"
    /\ reqStream' = TRUE
    /\ Sends("anthropic", TRUE)
    /\ op' = "ChatStream"
    /\ status' = 200
    /\ \E b \in BareBodies : body' = b
    /\ pc' = "read"
    /\ UNCHANGED <<closed, pos, reads, event, ci, delivered, result, cancelled,
                   buffered, running, client, log, req>>

NextBare ==
    \/ Request200Bare
    \/ ReadEnd
    \/ AnthropicReadLine

SpecBare == Init /\ [][NextBare]_vars

----------------------------------------------------------------------------
(* pinecone: CreateIndex of the ControlClient, QueryVectors of the         *)
(* DataClient                                                              *)

\* The requests of the callers.  Vector is "finite" when every float32 of
\* the vector is a number, "NaN" when one of them is not.
CreateIndexRequests == [Name : {"", "idx", "idx2"}, Dimension : {-1, 0, 1, 2}]
QueryVectorsRequests == [TopK : {-1, 0, 1, 2}, Vector : {"finite", "NaN"}]

InitPinecone == Start(CreateIndexRequests \cup QueryVectorsRequests)

\* The request type each method takes.
RequestsOf(o) ==
    IF o = "CreateIndex" THEN CreateIndexRequests ELSE QueryVectorsRequests

\* (*CreateIndexRequest).Validate with the two tests in the other order.
ValidateCreateIndex_DimensionFirst(r) ==
    IF r.Dimension <= 0 THEN Errorf("dimension must be greater than 0")
    ELSE IF r.Name = "" THEN Errorf("name is required")
    ELSE Nil

\* (*CreateIndexRequest).Validate
ValidateCreateIndex(r) ==
    IF r.Name = "" THEN Errorf("name is required")
    ELSE IF r.Dimension <= 0 THEN Errorf("dimension must be greater than 0")
    ELSE Nil

\* (*QueryVectorsRequest).Validate
ValidateQueryVectors(r) ==
    IF r.TopK <= 0 THEN Errorf("top k must be greater than 0")
    ELSE Nil

Validate(o, r) ==
    IF o = "CreateIndex" THEN ValidateCreateIndex(r)
    ELSE ValidateQueryVectors(r)

UnsupportedValueError ==
    [kind |-> "*json.UnsupportedValueError",
     msg |-> "json: unsupported value: NaN", raw |-> <<>>]

\* json.NewEncoder(buf).Encode(body) in c.request: a float that is not a
\* number has no JSON.
EncodeErr(o, r) ==
    IF o = "QueryVectors" /\ r.Vector = "NaN" THEN UnsupportedValueError
    ELSE Nil

\* The HTTP request c.request builds for a body that was encoded.
HTTPRequest(o, r) ==
    [method |-> "POST",
     path |-> IF o = "CreateIndex" THEN "/indexes" ELSE "/query",
     body |-> IF o = "CreateIndex"
              THEN [name |-> r.Name, dimension |-> r.Dimension]
              ELSE [topK |-> r.TopK, vector |-> r.Vector]]

\* The status each method takes for success.
StatusWanted(o) == IF o = "CreateIndex" THEN 201 ELSE 200

\* decodeError of pinecone: "<code>: <message>" of the "error" member (the
\* bodies of ErrorBodies have no "code"), or the failure of the decoder.
PineconeDecodeError(errBody) ==
    LET err == DecodeErr(errBody, {"error"})
    IN  IF err # Nil
        THEN ErrorfW("error decoding error response: ", err)
        ELSE Errorf("" \o ": " \o ErrorFieldOf(TrimLeft(errBody), "errMsg"))

\* req.Validate() returns an error: the method returns it.
PineconeInvalid(o) ==
    /\ pc = "idle"
    /\ req \in RequestsOf(o)
    /\ Validate(o, req) # Nil
    /\ variant' = "pinecone"
    /\ op' = o
    /\ Return(Validate(o, req), FALSE)
    /\ UNCHANGED <<reqStream, status, body, pos, reads, event, ci, delivered,
                   cancelled, buffered, running, client, log, req, sent>>

\* c.request returns an error: the body cannot be encoded, and no request
\* is built; or httpClient.Do fails on the request it was given.
PineconeRequestFails(o) ==
    /\ pc = "idle"
    /\ req \in RequestsOf(o)
    /\ Validate(o, req) = Nil
    /\ variant' = "pinecone"
    /\ op' = o
    /\ IF EncodeErr(o, req) # Nil
       THEN /\ Return(EncodeErr(o, req), FALSE)
            /\ UNCHANGED sent
       ELSE /\ Return(DoError, FALSE)
            /\ sent' = Append(sent, HTTPRequest(o, req))
    /\ UNCHANGED <<reqStream, status, body, pos, reads, event, ci, delivered,
                   cancelled, buffered, running, client, log, req>>

\* The response has another status than the one wanted.
PineconeNotOK(o) ==
    /\ pc = "idle"
    /\ req \in RequestsOf(o)
    /\ Validate(o, req) = Nil
    /\ EncodeErr(o, req) = Nil
    /\ variant' = "pinecone"
    /\ op' = o
    /\ sent' = Append(sent, HTTPRequest(o, req))
    /\ \E code \in {200, 201, 429, 500} \ {StatusWanted(o)} : status' = code
    /\ \E errBody \in ErrorBodies :
          /\ body' = ErrorBody(errBody)
          /\ Return(PineconeDecodeError(errBody), TRUE)
    /\ UNCHANGED <<reqStream, pos, reads, event, ci, delivered, cancelled,
                   buffered, running, client, log, req>>

\* The response has the status wanted and its body is decoded.
PineconeOK(o) ==
    /\ pc = "idle"
    /\ req \in RequestsOf(o)
    /\ Validate(o, req) = Nil
    /\ EncodeErr(o, req) = Nil
    /\ variant' = "pinecone"
    /\ op' = o
    /\ sent' = Append(sent, HTTPRequest(o, req))
    /\ status' = StatusWanted(o)
    /\ \E data \in ChatResponses :
          /\ body' = ErrorBody(data)
          /\ Return(DecodeErr(data, {}), TRUE)
    /\ UNCHANGED <<reqStream, pos, reads, event, ci, delivered, cancelled,
                   buffered, running, client, log, req>>

NextPinecone ==
    \/ \E o \in {"CreateIndex", "QueryVectors"} : PineconeInvalid(o)
    \/ \E o \in {"CreateIndex", "QueryVectors"} : PineconeRequestFails(o)
    \/ \E o \in {"CreateIndex", "QueryVectors"} : PineconeNotOK(o)
    \/ \E o \in {"CreateIndex", "QueryVectors"} : PineconeOK(o)

SpecPinecone == InitPinecone /\ [][NextPinecone]_vars


----------------------------------------------------------------------------
(* The wire, as the claims describe it *)

\* A record: the line  data: <one JSON object>
IsRecord(line) ==
    /\ Len(line) = 3
    /\ line[1] = DATA
    /\ line[2] = SP
    /\ line[3].t = "json"
    /\ line[3].j.syn = "object"

DocOf(line) == line[3].j

\* A well-formed record of one of the seven kinds that carry an event.
IsEventRecord(line) ==
    /\ IsRecord(line)
    /\ DocOf(line).typeK = "string"
    /\ DocOf(line).typeS \in KnownTypes \ {"error"}
    /\ DocOf(line).indexK # "string"

\* Well-formed event records, the terminal marker last and only last.
WellFormedAnthropicStream(b) ==
    /\ Len(b.lines) >= 1
    /\ \A i \in 1..Len(b.lines) :
          /\ IsEventRecord(b.lines[i])
          /\ DocOf(b.lines[i]).typeS = "message_stop" <=> i = Len(b.lines)

----------------------------------------------------------------------------
(* C1: anthropic ChatStream, on a body of well-formed event records that   *)
(* ends in a message_stop record, calls the callback exactly once per     *)
(* record, in wire order, with the event of the record's kind; the last   *)
(* call is for message_stop, and ChatStream returns nil in the same step, *)
(* having called ReadBytes once per record and never again, whatever      *)
(* follows the message_stop line in the body.                             *)
C1_WellFormedStreamDelivered ==
    (variant = "anthropic" /\ status = 200 /\ WellFormedAnthropicStream(body))
    =>
    /\ Len(delivered) = pos
    /\ reads = pos
    /\ \A i \in 1..Len(delivered) :
          /\ delivered[i].pos = i
          /\ delivered[i].ev.kind = DocOf(body.lines[i]).typeS
          /\ delivered[i].ev.Type = DocOf(body.lines[i]).typeS
    /\ pc = "returned" <=> pos = Len(body.lines)
    /\ pc = "returned" =>
          /\ result = Nil
          /\ delivered[Len(delivered)].ev.kind = "message_stop"

\* The three-record scenario: message_start, content_block_delta,
\* message_stop, then a transport that would fail on the next read.
C1_Witness ==
    /\ variant = "anthropic"
    /\ pc = "returned"
    /\ body.lines = <<Framed(TypedObject("message_start")), Framed(DeltaDoc),
                      Framed(TypedObject("message_stop"))>>
    /\ body.end = "err"
    /\ Len(delivered) = 3
    /\ result = Nil

----------------------------------------------------------------------------
(* openai: the wire *)

\* A well-formed streaming record: an object with a "choices" array.
IsChunkRecord(line) ==
    /\ IsRecord(line)
    /\ DocOf(line).choicesK = "array"

HasFinish(line) ==
    \E c \in 1..Len(DocOf(line).choices) :
        DocOf(line).choices[c].FinishReason # ""

\* The choices of lines 1..n in wire order, as (line, position) pairs.
RECURSIVE WireChoices(_, _)
WireChoices(lines, n) ==
    IF n = 0 THEN <<>>
    ELSE WireChoices(lines, n - 1) \o
         [c \in 1..Len(DocOf(lines[n]).choices) |-> [pos |-> n, ci |-> c]]

ChoiceAt(lines, w) == DocOf(lines[w.pos]).choices[w.ci]

\* The choices up to and including the first with a finish_reason.
UpToFinish(lines) ==
    LET all == WireChoices(lines, Len(lines))
        k == CHOOSE k \in 1..Len(all) :
                /\ ChoiceAt(lines, all[k]).FinishReason # ""
                /\ \A m \in 1..(k - 1) : ChoiceAt(lines, all[m]).FinishReason = ""
    IN  SubSeq(all, 1, k)

\* Records whose last one is the first to carry a finish_reason.
WellFormedOpenAIStream(b) ==
    /\ Len(b.lines) >= 1
    /\ \A i \in 1..Len(b.lines) :
          /\ IsChunkRecord(b.lines[i])
          /\ HasFinish(b.lines[i]) <=> i = Len(b.lines)

\* Records of which at least one carries a finish_reason.
OpenAIStreamWithFinish(b) ==
    /\ \A i \in 1..Len(b.lines) : IsChunkRecord(b.lines[i])
    /\ \E i \in 1..Len(b.lines) : HasFinish(b.lines[i])

----------------------------------------------------------------------------
(* C2, as claimed: openai ChatStream, on a body of well-formed records the *)
(* last of which carries a finish_reason, has called the callback exactly  *)
(* once per record, in wire order, when it returns nil.                    *)
C2_OncePerRecord ==
    (variant = "openai" /\ status = 200 /\ WellFormedOpenAIStream(body)
        /\ pc = "returned")
    =>
    /\ result = Nil
    /\ Len(delivered) = Len(body.lines)
    /\ \A i \in 1..Len(delivered) : delivered[i].pos = i

(* C2, amended: on a body of well-formed records of which one carries a    *)
(* finish_reason, the callback is called exactly once per choice (k times  *)
(* for a record of k choices, never for a record without choices), in wire *)
(* order, with a chunk holding that choice and the record's id, for every  *)
(* choice up to and including the first whose finish_reason is not empty;  *)
(* ChatStream returns nil in the step of that call and reads no line after *)
(* the one that holds it.                                                  *)
C2_OncePerChoice ==
    (variant = "openai" /\ status = 200 /\ OpenAIStreamWithFinish(body))
    =>
    LET expected == UpToFinish(body.lines) IN
    /\ Len(delivered) <= Len(expected)
    /\ \A i \in 1..Len(delivered) :
          LET choice == ChoiceAt(body.lines, expected[i]) IN
          /\ delivered[i].pos = expected[i].pos
          /\ delivered[i].ci = expected[i].ci
          /\ delivered[i].ev.kind = "chunk"
          /\ delivered[i].ev.ID = DocOf(body.lines[expected[i].pos]).id
          /\ delivered[i].ev.Text = choice.Content
          /\ delivered[i].ev.Index = choice.Index
          /\ delivered[i].ev.FinishReason = choice.FinishReason
    /\ pc = "returned" <=> Len(delivered) = Len(expected)
    /\ pc = "returned" => result = Nil
    /\ reads = pos
    /\ pos <= expected[Len(expected)].pos

\* Two choices in one record, a record without choices, then the record
\* that finishes; the transport would fail on the next read.
C2_Witness ==
    /\ variant = "openai"
    /\ pc = "returned"
    /\ body.lines =
          <<Framed(ChunkDoc(<<MkChoice("a", "", 0), MkChoice("b", "", 1)>>)),
            Framed(ChunkDoc(<<>>)),
            Framed(ChunkDoc(<<MkChoice("", "stop", 0)>>))>>
    /\ body.end = "err"
    /\ Len(delivered) = 3
    /\ result = Nil

----------------------------------------------------------------------------
(* C3: openai ChatStream.  A chunk delivered with an empty finish_reason    *)
(* does not end the call: the loop goes on to the next choice of the       *)
(* record, or to the next line, and if the call has returned it returned   *)
(* on a later read.  A chunk delivered with a finish_reason that is not    *)
(* empty is the last call of the callback, and ChatStream has returned nil *)
(* without another read.                                                   *)
C3_FinishReasonTerminates ==
    variant = "openai" =>
    \A i \in 1..Len(delivered) :
        LET d == delivered[i] IN
        /\ d.ev.FinishReason # "" =>
              /\ i = Len(delivered)
              /\ pc = "returned"
              /\ result = Nil
              /\ reads = d.pos
        /\ (d.ev.FinishReason = "" /\ i = Len(delivered)) =>
              /\ pc = "returned" => reads > d.pos
              /\ reads = d.pos =>
                    pc = IF d.ci < Len(event.Choices) THEN "choices" ELSE "read"

\* An empty finish_reason was delivered and the call went on; "length"
\* ended it.
C3_Witness ==
    /\ variant = "openai"
    /\ pc = "returned"
    /\ result = Nil
    /\ Len(delivered) >= 2
    /\ delivered[1].ev.FinishReason = ""
    /\ delivered[Len(delivered)].ev.FinishReason = "length"
    /\ pos < Len(body.lines)

----------------------------------------------------------------------------
(* anthropic: error records *)

\* A record of type "error" whose "error" member is an object (or absent,
\* which leaves both fields empty).
IsErrorRecord(line) ==
    /\ IsRecord(line)
    /\ DocOf(line).typeK = "string"
    /\ DocOf(line).typeS = "error"
    /\ DocOf(line).errK # "string"

Calls(n) == {i \in 1..Len(delivered) : delivered[i].pos = n}

(* C4: anthropic ChatStream returns, at a record of type "error", an error *)
(* that is not nil and whose message is "<error.type>: <error.message>" of *)
(* the payload; the callback is not called for that record.                *)
C4_ErrorRecordFails ==
    (variant = "anthropic" /\ pos >= 1 /\ IsErrorRecord(body.lines[pos]))
    =>
    LET doc == DocOf(body.lines[pos]) IN
    /\ pc = "returned"
    /\ result.kind \notin {"nil", "pending"}
    /\ result.msg = (IF doc.errK = "object" THEN doc.errType ELSE "") \o ": " \o
                    (IF doc.errK = "object" THEN doc.errMsg ELSE "")
    /\ Calls(pos) = {}
    /\ reads = pos

\* An event was delivered, then the overloaded_error record failed the call.
C4_Witness ==
    /\ variant = "anthropic"
    /\ pos = 2
    /\ body.lines[2] = Framed(ErrorDoc)
    /\ Len(delivered) = 1
    /\ result.msg = "overloaded_error: Overloaded"
    /\ Len(body.lines) = 3

----------------------------------------------------------------------------
(* Both decoders: the end of the body *)

\* ReadBytes has returned an error: one read more than there are lines.
ReadFailed == status = 200 /\ reads > Len(body.lines)

\* The number of callback calls a record is worth on the wire: one for an
\* anthropic event record, one per choice for an openai record.
WorthOf(v, line) ==
    IF v = "anthropic"
    THEN IF IsEventRecord(line) THEN 1 ELSE 0
    ELSE IF IsChunkRecord(line) THEN Len(DocOf(line).choices) ELSE 0

\* delivered only grows: a call of the callback is never taken back.
NoRollback ==
    /\ Len(delivered') >= Len(delivered)
    /\ SubSeq(delivered', 1, Len(delivered)) = delivered

(* C5: in both decoders, when the body reaches end-of-input and no         *)
(* terminal event was seen, ChatStream returns nil; the events delivered   *)
(* before are all there (one per event record, one per choice), whether or *)
(* not unterminated bytes precede the end, and no step of the call ever    *)
(* takes a delivered event back.                                           *)
C5_EOFReturnsNil ==
    /\ [](ReadFailed /\ body.end = "eof" =>
            /\ pc = "returned"
            /\ result = Nil
            /\ \A n \in 1..Len(body.lines) :
                  Cardinality(Calls(n)) = WorthOf(variant, body.lines[n]))
    /\ [][NoRollback]_vars

\* The body ended after two delivered events and a dangling terminal record.
C5_Witness ==
    /\ ReadFailed
    /\ body.end = "eof"
    /\ body.tail # <<>>
    /\ result = Nil
    /\ Len(delivered) = 2
    /\ Len(body.lines) = 3

(* C10: in both decoders, a read failure other than end-of-input makes     *)
(* ChatStream return an error carrying that failure (anthropic returns the *)
(* failure itself, openai its text after "failed to read response: ");     *)
(* nothing of the failing line is decoded or delivered, and the events     *)
(* delivered before stay delivered.                                        *)
C10_ReadFailureReturned ==
    /\ [](ReadFailed /\ body.end = "err" =>
            /\ pc = "returned"
            /\ result = IF variant = "anthropic" THEN ReadError
                        ELSE Errorf("failed to read response: " \o ReadError.msg)
            /\ pos = Len(body.lines)
            /\ \A i \in 1..Len(delivered) : delivered[i].pos <= Len(body.lines)
            /\ \A n \in 1..Len(body.lines) :
                  Cardinality(Calls(n)) = WorthOf(variant, body.lines[n]))
    /\ [][pc' = "returned" /\ pc # "returned" /\ reads' > Len(body.lines)
            => delivered' = delivered]_vars

\* The read failed in the middle of a terminal record, after two events.
C10_Witness ==
    /\ ReadFailed
    /\ body.end = "err"
    /\ body.tail # <<>>
    /\ result.kind \notin {"nil", "pending"}
    /\ Len(delivered) = 2
    /\ Len(body.lines) = 2

----------------------------------------------------------------------------
(* Both decoders: malformed payloads *)

\* A line  data:<payload>  whose payload is not one JSON value.
HasBadPayload(line) ==
    LET l == TrimSpace(line) IN
    /\ HasPrefix(l, <<DATA>>)
    /\ LET payload == TrimSpace(SubSeq(l, 2, Len(l))) IN
       ~(Len(payload) = 1 /\ payload[1].t = "json")

(* C6: in both decoders a record whose data payload is not valid JSON makes *)
(* ChatStream return a decode error at that record (anthropic the          *)
(* *json.SyntaxError, openai its text after "failed to unmarshal event: ");*)
(* the callback is called neither for that record nor for a later one, and *)
(* every earlier record still has the calls it is worth.                   *)
C6_InvalidJSONFails ==
    \A n \in 1..pos :
        HasBadPayload(body.lines[n]) =>
            /\ n = pos
            /\ reads = n
            /\ pc = "returned"
            /\ result = IF variant = "anthropic" THEN SyntaxError
                        ELSE Errorf("failed to unmarshal event: " \o
                                    SyntaxError.msg)
            /\ \A i \in 1..Len(delivered) : delivered[i].pos < n
            /\ \A m \in 1..(n - 1) :
                  Cardinality(Calls(m)) = WorthOf(variant, body.lines[m])

\* One event delivered, then the malformed record, then a line never read.
C6_Witness ==
    /\ pos = 2
    /\ Len(body.lines) = 3
    /\ body.lines[2] = <<DATA, SP, TEXT>>
    /\ Len(delivered) >= 1
    /\ pc = "returned"

----------------------------------------------------------------------------
(* anthropic: unknown kinds *)

\* A record whose type is a string outside the eight known kinds, or absent.
IsUnknownRecord(line) ==
    /\ IsRecord(line)
    /\ DocOf(line).typeK # "number"
    /\ DocOf(line).typeS \notin KnownTypes

RECURSIVE WithoutUnknown(_)
WithoutUnknown(lines) ==
    IF lines = <<>> THEN <<>>
    ELSE IF IsUnknownRecord(Head(lines)) THEN WithoutUnknown(Tail(lines))
    ELSE <<Head(lines)>> \o WithoutUnknown(Tail(lines))

\* The events and the result of anthropic ChatStream on a whole body.
RECURSIVE AnthropicOutcome(_, _)
AnthropicOutcome(lines, end) ==
    IF lines = <<>>
    THEN [events |-> <<>>, err |-> EndResult("anthropic", end)]
    ELSE LET r == AnthropicLine(Head(lines)) IN
         IF r.return THEN [events |-> r.calls, err |-> r.err]
         ELSE LET rest == AnthropicOutcome(Tail(lines), end) IN
              [events |-> r.calls \o rest.events, err |-> rest.err]

(* C7: anthropic ChatStream skips a record whose type is not one of the    *)
(* eight known kinds: no call of the callback, no error, the loop goes on; *)
(* and the events delivered and the result of the call are those of the    *)
(* same body with the unknown records taken out.                           *)
C7_UnknownTypeSkipped ==
    variant = "anthropic" =>
    /\ \A n \in 1..pos :
          IsUnknownRecord(body.lines[n]) =>
              /\ Calls(n) = {}
              /\ (n = pos /\ reads = pos) => (pc = "read" /\ result = Pending)
    /\ (pc = "returned" /\ status = 200) =>
          LET o == AnthropicOutcome(WithoutUnknown(body.lines), body.end) IN
          /\ [i \in 1..Len(delivered) |-> delivered[i].ev] = o.events
          /\ result = o.err

\* tool_use_delta first, then a delta and the message_stop, both delivered.
C7_Witness ==
    /\ variant = "anthropic"
    /\ pc = "returned"
    /\ body.lines = <<Framed(TypedObject("tool_use_delta")), Framed(DeltaDoc),
                      Framed(TypedObject("message_stop"))>>
    /\ Len(delivered) = 2
    /\ delivered[1].pos = 2
    /\ result = Nil

----------------------------------------------------------------------------
(* C8: in both decoders and for every body, the calls of the callback are  *)
(* in wire order: of two calls the earlier is for an earlier line, or for  *)
(* an earlier choice of the same line, so no event is delivered twice; and *)
(* the event of a call is the one of the record at that place.             *)
C8_WireOrder ==
    /\ \A i, j \in 1..Len(delivered) :
          i < j =>
              \/ delivered[i].pos < delivered[j].pos
              \/ /\ delivered[i].pos = delivered[j].pos
                 /\ delivered[i].ci < delivered[j].ci
    /\ \A i \in 1..Len(delivered) :
          LET d == delivered[i]
              line == body.lines[d.pos]
          IN  /\ d.pos \in 1..pos
              /\ IsRecord(line) =>
                    IF variant = "anthropic"
                    THEN /\ d.ci = 1
                         /\ d.ev.kind = DocOf(line).typeS
                    ELSE /\ d.ci \in 1..Len(DocOf(line).choices)
                         /\ d.ev.Text = DocOf(line).choices[d.ci].Content
                         /\ d.ev.Index = DocOf(line).choices[d.ci].Index

\* Three calls, two of them for the choices of one record, before the body
\* failed the call.
C8_Witness ==
    /\ pc = "returned"
    /\ result.kind \notin {"nil", "pending"}
    /\ Len(delivered) = 3
    /\ delivered[1].pos = delivered[2].pos

----------------------------------------------------------------------------
IsTerminalEvent(ev) ==
    \/ ev.kind = "message_stop"
    \/ ev.kind = "chunk" /\ ev.FinishReason # ""

(* C9: in both decoders, once the terminal event has been delivered it is  *)
(* the last call of the callback, ChatStream has returned nil, and the     *)
(* reader has gone no further than the terminal line: the lines after it,  *)
(* malformed or error records included, are never read.                    *)
C9_NothingAfterTerminal ==
    \A i \in 1..Len(delivered) :
        IsTerminalEvent(delivered[i].ev) =>
            /\ i = Len(delivered)
            /\ pc = "returned"
            /\ result = Nil
            /\ pos = delivered[i].pos
            /\ reads = pos

\* The terminal event came first; an error record and a malformed record
\* follow it in the body.
C9_Witness ==
    /\ Len(delivered) = 1
    /\ IsTerminalEvent(delivered[1].ev)
    /\ pos = 1
    /\ Len(body.lines) = 3
    /\ body.lines[2] = Framed(ErrorDoc)
    /\ body.lines[3] = <<DATA, SP, TEXT>>
    /\ body.end = "err"
    /\ result = Nil

----------------------------------------------------------------------------
\* The exit paths of ChatStream once there is a response.
ExitPath ==
    IF status # 200 THEN "non-200 status"
    ELSE IF result = Nil /\ ReadFailed THEN "end of input"
    ELSE IF result = Nil THEN "terminal event"
    ELSE IF ReadFailed THEN "transport error"
    ELSE IF IsErrorRecord(body.lines[pos]) THEN "upstream error event"
    ELSE "decode error"

(* C11: in both ChatStreams the response body is closed exactly once, and  *)
(* that on the way out: while the call runs the body is open, and once the *)
(* call has returned with a response in hand (non-200 status, terminal     *)
(* event, end of input, transport error, decode error or upstream error    *)
(* event) Close has been called once; without a response it is not called. *)
C11_BodyClosedOnce ==
    /\ pc # "returned" => closed = 0
    /\ pc = "returned" => closed = IF status # 0 THEN 1 ELSE 0

\* The call left through the upstream error event, after a delivery.
C11_Witness ==
    /\ pc = "returned"
    /\ status = 200
    /\ ExitPath = "upstream error event"
    /\ Len(delivered) >= 1
    /\ closed = 1

----------------------------------------------------------------------------
\* The errors the decoding of a line can return.
ProtocolErrors(v) ==
    IF v = "anthropic"
    THEN {SyntaxError, UnmarshalTypeError} \cup
         {Errorf(t \o ": " \o m) : t \in {"", "overloaded_error"},
                                   m \in {"", "Overloaded"}}
    ELSE {Errorf("failed to unmarshal event: " \o e.msg) :
              e \in {SyntaxError, UnmarshalTypeError}}

\* The outcome a returned decode call reports.
Outcome ==
    CASE result = Nil -> "natural completion"
      [] result = EndResult(variant, "err") -> "transport error"
      [] result \in ProtocolErrors(variant) -> "protocol error"
      [] OTHER -> "none"

\* The calls of the callback made for the line being handled.
CallsOfLine == Cardinality(Calls(pos))

\* A step of a running call reads once more, delivers one more choice, or
\* returns.
Advances ==
    pc \in {"read", "choices"} =>
        \/ reads' = reads + 1
        \/ reads' = reads /\ Len(delivered') = Len(delivered) + 1
        \/ pc' = "returned"

(* C12: in both decoders every decode call on a finite body terminates and *)
(* reports exactly one outcome.  Termination: a running call always has a  *)
(* next step (a line or the end of the body to read, or a choice to        *)
(* deliver), every step reads once more, delivers one more choice or       *)
(* returns, and the loop never reads more than once per line plus once for *)
(* the end, nor calls the callback more often than a line has choices; so  *)
(* no call runs forever.  One outcome: the call has a result exactly when  *)
(* it has returned, the result never changes afterwards, and it is natural *)
(* completion (the terminal event was delivered, or the input ended        *)
(* cleanly), a transport error (the read failed) or a protocol error (a    *)
(* line did not decode, or was an upstream error record).  The callback    *)
(* returns nothing, so no call ends by a stop the handler requested.       *)
C12_TerminatesWithOneOutcome ==
    /\ [](pc = "read" => pos <= Len(body.lines) /\ reads = pos)
    /\ [](pc = "choices" =>
            /\ variant = "openai"
            /\ ci \in 1..Len(event.Choices)
            /\ CallsOfLine = ci - 1)
    /\ [](reads <= Len(body.lines) + 1)
    /\ [][Advances]_vars
    /\ [](pc = "returned" <=> result # Pending)
    /\ [][result # Pending => result' = result /\ pc' = "returned"]_vars
    /\ [](pc = "returned" /\ status = 200 =>
            /\ Outcome \in {"natural completion", "transport error",
                            "protocol error"}
            /\ Outcome = "transport error" <=>
                   ReadFailed /\ body.end = "err"
            /\ Outcome = "natural completion" <=>
                   \/ ReadFailed /\ body.end = "eof"
                   \/ /\ delivered # <<>>
                      /\ IsTerminalEvent(delivered[Len(delivered)].ev)
            /\ Outcome = "protocol error" =>
                   ~ReadFailed /\ WorthOf(variant, body.lines[pos]) = 0)

\* A call that went through a full body of three lines, the last of them
\* undecodable, and ended with a protocol error.
C12_Witness ==
    /\ pc = "returned"
    /\ status = 200
    /\ pos = MaxLines
    /\ Len(delivered) >= 2
    /\ Outcome = "protocol error"

----------------------------------------------------------------------------
(* C13: anthropic ChatStream, once it has read an error record, has that   *)
(* record's error as its result whatever follows it in the body (more      *)
(* records, message_stop, the end of the input, a failing read): the error *)
(* record is the last line read, the result is the one a body made of that *)
(* record alone gives, never nil and never the transport's error, and      *)
(* every call of the callback was made for a line before the error record. *)
C13_ErrorTakesPrecedence ==
    variant = "anthropic" =>
        \A n \in 1..pos :
            IsErrorRecord(body.lines[n]) =>
                /\ n = pos
                /\ reads = n
                /\ pc = "returned"
                /\ result = AnthropicOutcome(<<body.lines[n]>>, "eof").err
                /\ result \notin {Nil, Pending, EndResult("anthropic", "err")}
                /\ \A i \in 1..Len(delivered) : delivered[i].pos < n

\* The error record is the first line; message_stop and a delta follow it,
\* and the body would end in a failing read.
C13_Witness ==
    /\ variant = "anthropic"
    /\ body.lines = <<Framed(ErrorDoc), Framed(TypedObject("message_stop")),
                      Framed(DeltaDoc)>>
    /\ body.end = "err"
    /\ pos = 1
    /\ delivered = <<>>
    /\ result = Errorf("overloaded_error: Overloaded")

----------------------------------------------------------------------------
(* Both decoders: records whose shape is not the variant's *)

\* The members the variant of a record declares: for anthropic those of the
\* struct its type names, for openai the choices of the chunk.
MembersOf(v, doc) ==
    IF v = "openai" THEN {"choices"}
    ELSE IF doc.typeK # "string" THEN {}
    ELSE IF doc.typeS \in {"content_block_start", "content_block_delta",
                           "content_block_stop"}
    THEN {"index"}
    ELSE IF doc.typeS = "error" THEN {"error"}
    ELSE {}

\* The JSON type of a member of a record, "absent" when it has none.
JsonTypeOf(doc, member) ==
    CASE member = "index" -> doc.indexK
      [] member = "choices" -> doc.choicesK
      [] member = "error" -> doc.errK

\* The JSON type the field of a member holds.
FieldTypeOf(member) ==
    CASE member = "index" -> "number"
      [] member = "choices" -> "array"
      [] member = "error" -> "object"

\* A record one of whose members has a JSON type its field cannot hold.
TypeMismatch(v, line) ==
    /\ IsRecord(line)
    /\ \E m \in MembersOf(v, DocOf(line)) :
          JsonTypeOf(DocOf(line), m) \notin {"absent", FieldTypeOf(m)}

\* A record whose shape is not the variant's: a member is missing or has
\* another JSON type.
ShapeMismatch(v, line) ==
    /\ IsRecord(line)
    /\ \E m \in MembersOf(v, DocOf(line)) :
          JsonTypeOf(DocOf(line), m) # FieldTypeOf(m)

\* Line n fails the call with a decode error and gets no call.
FailsAt(n) ==
    /\ n = pos
    /\ pc = "returned"
    /\ result = IF variant = "anthropic" THEN UnmarshalTypeError
                ELSE Errorf("failed to unmarshal event: " \o
                            UnmarshalTypeError.msg)
    /\ Calls(n) = {}

----------------------------------------------------------------------------
(* Both decoders: framing lines *)

\* A line that carries no record: blank, or the event: field of a frame.
IsFramingLine(line) ==
    \/ TrimSpace(line) = <<>>
    \/ HasPrefix(TrimSpace(line), <<EVENT>>)

(* C15: in both decoders a blank line or an event: line is skipped: the    *)
(* callback is not called for it, the call does not fail at it, and the    *)
(* loop goes on to the next line.                                          *)
C15_FramingLinesSkipped ==
    \A n \in 1..pos :
        IsFramingLine(body.lines[n]) =>
            /\ Calls(n) = {}
            /\ (n = pos /\ reads = pos) => (pc = "read" /\ result = Pending)

----------------------------------------------------------------------------
(* anthropic: the event: field *)

IsEventField(line) == HasPrefix(TrimSpace(line), <<EVENT>>)

WithoutEventFields(lines) == SelectSeq(lines, LAMBDA l : ~IsEventField(l))

(* C16: in anthropic ChatStream the kind of an event is that of the type   *)
(* member of its JSON payload alone.  A line  event: <kind>  gets no call  *)
(* and ends nothing; the record after it is delivered as the kind its      *)
(* payload names, or fails the call when that kind is error; and the       *)
(* events delivered and the result of a call are those of the same body    *)
(* with its event: lines taken out.                                        *)
C16_KindFromPayload ==
    variant = "anthropic" =>
    /\ \A n \in 1..pos :
          IsEventField(body.lines[n]) =>
              /\ Calls(n) = {}
              /\ (n = pos /\ reads = pos) => (pc = "read" /\ result = Pending)
    /\ \A n \in 2..pos :
          IsEventField(body.lines[n - 1]) =>
              /\ IsEventRecord(body.lines[n]) =>
                    \E i \in 1..Len(delivered) :
                        /\ Calls(n) = {i}
                        /\ delivered[i].ev.kind = DocOf(body.lines[n]).typeS
                        /\ (n = pos /\ reads = pos /\ pc = "returned") =>
                               delivered[i].ev.kind = "message_stop"
              /\ IsErrorRecord(body.lines[n]) =>
                    /\ Calls(n) = {}
                    /\ pc = "returned"
                    /\ result \in ProtocolErrors("anthropic")
    /\ (pc = "returned" /\ status = 200) =>
          LET o == AnthropicOutcome(WithoutEventFields(body.lines), body.end)
          IN  /\ [i \in 1..Len(delivered) |-> delivered[i].ev] = o.events
              /\ result = o.err

\* The line  event: message_stop  came before a content_block_delta record:
\* the delta was delivered and the call went on to the error record.
C16_Witness ==
    /\ variant = "anthropic"
    /\ body.lines = <<<<EVENT, SP, NAME("message_stop")>>, Framed(DeltaDoc),
                      Framed(ErrorDoc)>>
    /\ pos = 3
    /\ Len(delivered) = 1
    /\ delivered[1].ev.kind = "content_block_delta"
    /\ delivered[1].pos = 2
    /\ result = Errorf("overloaded_error: Overloaded")

----------------------------------------------------------------------------
(* Both decoders: the data: prefix *)

\* What follows data: on a line, without the surrounding whitespace.
PayloadOf(line) ==
    LET l == TrimSpace(line) IN TrimSpace(SubSeq(l, 2, Len(l)))

\* The line  data:<one JSON object>, with or without whitespace around it.
IsDataLine(line) ==
    /\ HasPrefix(TrimSpace(line), <<DATA>>)
    /\ Len(PayloadOf(line)) = 1
    /\ PayloadOf(line)[1].t = "json"
    /\ PayloadOf(line)[1].j.syn = "object"

(* C17: in both decoders a line that begins with data: has the prefix      *)
(* taken off and what is left, trimmed, decoded as one JSON document: when *)
(* that is a JSON object the call does not fail at the line with a syntax  *)
(* error, and the line gets the calls its record is worth.                 *)
C17_DataPrefixStripped ==
    \A n \in 1..pos :
        IsDataLine(body.lines[n]) =>
            /\ ~(/\ n = pos
                 /\ pc = "returned"
                 /\ result \in {SyntaxError,
                                Errorf("failed to unmarshal event: " \o
                                       SyntaxError.msg)})
            /\ (n < pos \/ pc = "read") =>
                  Cardinality(Calls(n)) =
                      WorthOf(variant, Framed(PayloadOf(body.lines[n])[1].j))

----------------------------------------------------------------------------
\* The positions in delivered of the terminal events.
TerminalCalls ==
    {i \in 1..Len(delivered) : IsTerminalEvent(delivered[i].ev)}

(* C18: in both decoders the callback receives at most one terminal event  *)
(* in a call (message_stop, or a chunk whose finish_reason is not empty),  *)
(* whatever the body holds, and a terminal event that was delivered is the *)
(* last call of the callback; none has been delivered while the call runs. *)
C18_AtMostOneTerminal ==
    /\ Cardinality(TerminalCalls) <= 1
    /\ TerminalCalls \subseteq {Len(delivered)}
    /\ pc # "returned" => TerminalCalls = {}

\* The body holds two terminal records after a chunk; the first of them
\* was delivered, the second never read.
C18_Witness ==
    /\ variant = "openai"
    /\ body.lines = <<Framed(ChunkDoc(<<MkChoice("Hi", "", 0)>>)),
                      Framed(ChunkDoc(<<MkChoice("", "stop", 0)>>)),
                      Framed(ChunkDoc(<<MkChoice("", "length", 0)>>))>>
    /\ Len(delivered) = 2
    /\ TerminalCalls = {2}
    /\ pos = 2
    /\ pc = "returned"

----------------------------------------------------------------------------
(* Both decoders: cancellation *)

(* C19: in both decoders a call whose ctx the caller cancelled while it    *)
(* ran, before a terminal event was delivered, never returns nil.          *)
C19_CancelNeverNil ==
    (cancelled /\ pc = "returned") => result # Nil

----------------------------------------------------------------------------
(* Both decoders: what a decode error tells *)

\* A record whose payload does not decode: it is not one JSON value, or a
\* member has a JSON type its field cannot hold.
IsMalformed(v, line) == HasBadPayload(line) \/ TypeMismatch(v, line)

\* The text of the error json.Unmarshal gives for a malformed record.
JsonErrorOf(line) ==
    IF HasBadPayload(line) THEN SyntaxError ELSE UnmarshalTypeError

(* C20, as claimed: in both decoders the error ChatStream returns at a     *)
(* record whose payload is malformed carries the raw text of that record.  *)
C20_ErrorCarriesRawText ==
    \A n \in 1..pos :
        (IsMalformed(variant, body.lines[n]) /\ pc = "returned" /\ n = pos) =>
            result.raw \in {body.lines[n], TrimSpace(body.lines[n]),
                            PayloadOf(body.lines[n])}

(* C20, amended: in both decoders the error ChatStream returns at a record *)
(* whose payload is malformed is the error of json.Unmarshal (anthropic    *)
(* the error itself, openai its text behind "failed to unmarshal event: "):*)
(* it tells the kind of the failure, syntax or type, and quotes nothing of *)
(* the record, so that every malformed record of a kind gives one and the  *)
(* same error.                                                             *)
C20_ErrorIsJsonError ==
    \A n \in 1..pos :
        IsMalformed(variant, body.lines[n]) =>
            /\ n = pos
            /\ pc = "returned"
            /\ result.raw = <<>>
            /\ result.kind = IF variant = "anthropic"
                             THEN JsonErrorOf(body.lines[n]).kind
                             ELSE "*errors.errorString"
            /\ result.msg = (IF variant = "anthropic" THEN ""
                             ELSE "failed to unmarshal event: ") \o
                            JsonErrorOf(body.lines[n]).msg

\* The openai call failed at the line  data: [DONE]  after a delivery.
C20_Witness ==
    /\ variant = "openai"
    /\ pos = 2
    /\ body.lines[2] = <<DATA, SP, TEXT>>
    /\ Len(delivered) >= 1
    /\ result.msg = "failed to unmarshal event: invalid character"
    /\ result.raw = <<>>

----------------------------------------------------------------------------
(* Both decoders: the kinds of failure *)

\* The texts of the errors of the transport and of encoding/json.
BaseTexts == {ReadError.msg, SyntaxError.msg, UnmarshalTypeError.msg}

\* The kind of failure a result tells its caller, from the result alone:
\* anthropic by the Go type of the error (the transport's own error, an
\* error of encoding/json, the error made by fmt.Errorf in the error case),
\* openai by the words its text begins with.
KindOf(v, err) ==
    IF v = "anthropic"
    THEN CASE err.kind = "transport" -> "transport error"
           [] err.kind \in {"*json.SyntaxError", "*json.UnmarshalTypeError"}
                -> "decode error"
           [] err.kind = "*errors.errorString" -> "protocol error"
           [] OTHER -> "none"
    ELSE CASE err.msg \in {"failed to read response: " \o m : m \in BaseTexts}
                -> "transport error"
           [] err.msg \in {"failed to unmarshal event: " \o m : m \in BaseTexts}
                -> "decode error"
           [] OTHER -> "none"

\* The kind of the failure that ended the call, from what happened.
FailureOf ==
    IF ReadFailed THEN "transport error"
    ELSE IF variant = "anthropic" /\ IsErrorRecord(body.lines[pos])
    THEN "protocol error"
    ELSE "decode error"

----------------------------------------------------------------------------
(* Both decoders: the callback is a plain call *)

\* While a call of the callback is in progress, the only step is its return.
WaitsForCallback ==
    running >= 1 =>
        /\ running' = running - 1
        /\ reads' = reads
        /\ pos' = pos
        /\ delivered' = delivered

\* A call of the callback starts only when none is in progress.
OneAtATime ==
    Len(delivered') > Len(delivered) =>
        /\ running = 0
        /\ running' = 1
        /\ Len(delivered') = Len(delivered) + 1

(* C22: in both decoders the callback is called in line: at most one call  *)
(* of it is in progress at any time, a call starts only when none is in    *)
(* progress, and from the call to its return ChatStream does nothing else: *)
(* it reads no line and delivers no event until the callback has returned. *)
C22_CallbackSynchronous ==
    /\ [](running <= 1)
    /\ [](running = 1 <=> pc = "callback")
    /\ [][WaitsForCallback]_vars
    /\ [][OneAtATime]_vars

\* The second call of the callback is in progress and a line waits to be
\* read.
C22_Witness ==
    /\ pc = "callback"
    /\ running = 1
    /\ Len(delivered) = 2
    /\ pos < Len(body.lines)

----------------------------------------------------------------------------
(* Both decoders: nothing is kept from one call to the next *)

\* The events delivered by the call that is running or has just returned.
EventsDelivered == [i \in 1..Len(delivered) |-> delivered[i].ev]

\* The earlier calls that were given the body of this call.
SameBodyBefore ==
    {k \in 1..Len(log) : log[k].status = 200 /\ log[k].body = body}

(* C23: no state of a decode outlives its call.  A call of ChatStream that *)
(* returned delivered the events and returned the result of every earlier  *)
(* call on the same Client that was given the same body, whatever other    *)
(* calls were made before or between them; every call starts with nothing  *)
(* read, nothing delivered and no result; and no step of any call changes  *)
(* baseURL, token or httpClient of the Client.                             *)
C23_NoStateAcrossCalls ==
    /\ [](pc = "returned" /\ status = 200 =>
            \A k \in SameBodyBefore :
                /\ log[k].events = EventsDelivered
                /\ log[k].result = result)
    /\ [](pc = "idle" =>
            /\ pos = 0
            /\ reads = 0
            /\ delivered = <<>>
            /\ result = Pending
            /\ closed = 0)
    /\ [][client' = client]_vars
    /\ [](client = NewClient)

\* The third call on the Client: the first ended at an error record, the
\* second and the third were given one and the same body that ends in the
\* terminal event.
C23_Witness ==
    /\ Len(log) = 2
    /\ log[1].status = 200
    /\ log[1].body # body
    /\ log[1].result \notin {Nil, Pending}
    /\ SameBodyBefore = {2}
    /\ pc = "returned"
    /\ status = 200
    /\ Len(delivered) >= 1
    /\ result = Nil

----------------------------------------------------------------------------
(* Both decoders: only '\n'-terminated lines are decoded *)

\* The step of ReadBytes that finds no '\n' before the end of the body.
NoNewlineStep == pc = "read" /\ reads' > Len(body.lines)

(* C24: in both decoders a line is decoded only if a '\n' ends it.  Every  *)
(* event delivered comes from one of the terminated lines; the read that   *)
(* reaches the end of the body delivers nothing and decodes nothing, even  *)
(* when the bytes since the last '\n' are a whole message_stop or          *)
(* finish_reason record; and at end-of-input ChatStream then returns nil.  *)
C24_UnterminatedTailDiscarded ==
    /\ [](\A i \in 1..Len(delivered) :
            /\ delivered[i].pos \in 1..Len(body.lines)
            /\ delivered[i].pos <= pos)
    /\ [][NoNewlineStep =>
            /\ delivered' = delivered
            /\ event' = event
            /\ pos' = pos
            /\ pc' = "returned"
            /\ result' = EndResult(variant, body.end)]_vars
    /\ [](ReadFailed /\ body.end = "eof" /\ body.tail # <<>> =>
            result = Nil /\ closed = 1)

\* anthropic: one delta line, then a whole message_stop record without its
\* '\n', then the end of the body: one event delivered, nil returned.
C24_Witness ==
    /\ variant = "anthropic"
    /\ ReadFailed
    /\ body.end = "eof"
    /\ body.tail = Framed(TypedObject("message_stop"))
    /\ Len(body.lines) = 1
    /\ Len(delivered) = 1
    /\ delivered[1].ev.Type # "message_stop"
    /\ pc = "returned"
    /\ result = Nil

----------------------------------------------------------------------------
(* openai: one chunk per choice of a record *)

\* How many choices of a record are delivered: all of them, or those up to
\* and including the first with a finish_reason.
ChoicesDelivered(choices) ==
    IF \E c \in 1..Len(choices) : choices[c].FinishReason # ""
    THEN CHOOSE c \in 1..Len(choices) :
            /\ choices[c].FinishReason # ""
            /\ \A m \in 1..(c - 1) : choices[m].FinishReason = ""
    ELSE Len(choices)

\* The loop over the choices of line n is over.
ChoicesDone(n) == pc = "returned" \/ pos > n \/ (pos = n /\ pc = "read")

(* C25: openai ChatStream, for a record of k choices in a body of any      *)
(* lines, calls the callback once per choice, in the order of the array;   *)
(* the chunk of a call holds exactly that one choice and the id, object,   *)
(* created and model of the record.  The first choice with a non-empty     *)
(* finish_reason is the last delivery of the call: ChatStream returns nil  *)
(* with it, and neither the choices after it nor any later record is ever  *)
(* delivered.                                                              *)
C25_ChunkPerChoice ==
    (variant = "openai" /\ status = 200)
    =>
    /\ \A i \in 1..Len(delivered) :
          LET n == delivered[i].pos
              c == delivered[i].ci
              ev == delivered[i].ev
              doc == DocOf(body.lines[n])
          IN  /\ IsChunkRecord(body.lines[n])
              /\ c \in 1..Len(doc.choices)
              /\ ev.Choices = <<doc.choices[c]>>
              /\ ev.ID = doc.id
              /\ ev.Object = doc.object
              /\ ev.Created = doc.created
              /\ ev.Model = doc.model
              /\ c = IF i > 1 /\ delivered[i - 1].pos = n
                     THEN delivered[i - 1].ci + 1 ELSE 1
              /\ i > 1 => delivered[i - 1].pos <= n
              /\ \A m \in 1..(c - 1) : doc.choices[m].FinishReason = ""
              /\ doc.choices[c].FinishReason # "" =>
                    /\ i = Len(delivered)
                    /\ pc = "returned"
                    /\ result = Nil
                    /\ pos = n
    /\ \A n \in 1..pos :
          IsChunkRecord(body.lines[n]) /\ ChoicesDone(n) =>
             Cardinality(Calls(n)) = ChoicesDelivered(DocOf(body.lines[n]).choices)

\* A record of two choices ("a", "b"), then the record "c2" of two choices
\* whose first finishes, then one more record: three chunks, the last with
\* the id and model of "c2", and nil.
C25_Witness ==
    /\ variant = "openai"
    /\ pc = "returned"
    /\ result = Nil
    /\ Len(body.lines) = 3
    /\ pos = 2
    /\ IsChunkRecord(body.lines[3])
    /\ Len(delivered) = 3
    /\ delivered[1].ev.Choices = <<MkChoice("a", "", 0)>>
    /\ delivered[2].ev.Choices = <<MkChoice("b", "", 1)>>
    /\ delivered[2].ev.Model = "m1"
    /\ delivered[3].ev.Choices = <<MkChoice("a", "stop", 0)>>
    /\ delivered[3].ev.ID = "c2"
    /\ delivered[3].ev.Created = 2
    /\ delivered[3].ev.Model = "m2"

----------------------------------------------------------------------------
(* openai: records without choices *)

\* A JSON object with no choice in it: no "choices" member, as in the
\* {"error":{...}} the service sends for a failure, or "choices":[].
NoChoices(line) ==
    /\ IsRecord(line)
    /\ DocOf(line).syn = "object"
    /\ \/ DocOf(line).choicesK = "absent"
       \/ DocOf(line).choicesK = "array" /\ DocOf(line).choices = <<>>

\* openai ChatStream reads line pos + 1, a record without choices.
ReadsNoChoices ==
    /\ variant = "openai"
    /\ pc = "read"
    /\ pos < Len(body.lines)
    /\ pos' = pos + 1
    /\ NoChoices(body.lines[pos + 1])

(* C26: openai ChatStream takes a record that is a JSON object without any *)
(* choice for no event and no failure: the iteration that reads it calls   *)
(* the callback not at all, returns nothing and goes on to the next line;  *)
(* the call never ends at such a record, and a body of nothing but such    *)
(* records is read to its end, where io.EOF gives nil with no delivery.    *)
C26_NoChoicesIgnored ==
    /\ [][ReadsNoChoices =>
            /\ delivered' = delivered
            /\ pc' = "read"
            /\ result' = Pending
            /\ closed' = 0]_vars
    /\ [](variant = "openai" /\ status = 200 =>
            \A n \in 1..pos :
                NoChoices(body.lines[n]) =>
                    /\ Calls(n) = {}
                    /\ pc = "returned" /\ reads = pos => pos # n)
    /\ [](/\ variant = "openai"
          /\ ReadFailed
          /\ \A n \in 1..Len(body.lines) : NoChoices(body.lines[n])
          =>
          /\ pos = Len(body.lines)
          /\ delivered = <<>>
          /\ result = EndResult("openai", body.end))

\* Three records without choices, two of them the error of the service,
\* then the end of the body: no delivery, nil.
C26_Witness ==
    /\ variant = "openai"
    /\ body.lines = <<Framed(ErrorDoc), Framed(ChunkDoc(<<>>)),
                      Framed(ErrorDoc)>>
    /\ body.end = "eof"
    /\ ReadFailed
    /\ pc = "returned"
    /\ delivered = <<>>
    /\ result = Nil

----------------------------------------------------------------------------
(* Both decoders: a response whose status is not 200 *)

\* The response came with a status other than 200.
NotOK == status \notin {0, 200}

(* C27: in both decoders, when the status of the response is not 200,      *)
(* ChatStream returns at once a non-nil error made from the body of that   *)
(* response: "<type>: <message>" of its "error" member when the body is    *)
(* JSON, "error decoding error response: ..." around the failure of the    *)
(* decoder when it is not.  No line of that body is read as an event, the  *)
(* callback is not called, and the body is closed.                         *)
C27_Not200ReturnsError ==
    /\ [](NotOK =>
            /\ pc = "returned"
            /\ result = decodeError(variant, body.tail)
            /\ result.kind \notin {"nil", "pending"}
            /\ result.msg =
                  IF body.tail # <<>> /\ body.tail[1].t = "json"
                  THEN body.tail[1].j.errType \o ": " \o body.tail[1].j.errMsg
                  ELSE "error decoding error response: " \o
                       (IF body.tail = <<>> THEN EOF.msg ELSE SyntaxError.msg)
            /\ reads = 0
            /\ pos = 0
            /\ event = NoEvent
            /\ delivered = <<>>
            /\ closed = 1)
    /\ [][NotOK => UNCHANGED vars]_vars

\* openai: status 429 with the JSON error of the service in the body.
C27_Witness ==
    /\ variant = "openai"
    /\ status = 429
    /\ body.tail = <<JSON(ErrorDoc)>>
    /\ pc = "returned"
    /\ result = Errorf("overloaded_error: Overloaded")
    /\ delivered = <<>>

\* anthropic: status 500 with a body that is not JSON.
C27_WitnessNotJSON ==
    /\ variant = "anthropic"
    /\ status = 500
    /\ body.tail = <<TEXT>>
    /\ pc = "returned"
    /\ result.kind \notin {"nil", "pending"}

----------------------------------------------------------------------------
(* Both chat clients: what a call does to the caller's request *)

\* The step in which the caller's call of Chat or ChatStream begins.
CallBegins == pc = "idle" /\ pc' # "idle"

(* C28: in both chat clients ChatStream sets Stream of the caller's        *)
(* request to true and Chat sets it to false, whatever it was, before the  *)
(* request is marshalled and sent: the body that goes out has "stream"     *)
(* for ChatStream and, the member being omitempty, none for Chat, and the  *)
(* model and max_tokens of the caller.  No other field of the request is   *)
(* ever changed, and the request keeps the overwritten Stream when the     *)
(* call has returned.                                                      *)
C28_StreamOverwritten ==
    /\ [][CallBegins =>
            /\ op' \in {"Chat", "ChatStream"}
            /\ reqStream' = (op' = "ChatStream")]_vars
    /\ [][req' = req /\ (pc # "idle" => reqStream' = reqStream)]_vars
    /\ [](op # "none" =>
            /\ reqStream = (op = "ChatStream")
            /\ Len(sent) <= 1
            /\ status # 0 => Len(sent) = 1
            /\ \A i \in 1..Len(sent) :
                  /\ sent[i] = Marshal(variant, req, op = "ChatStream")
                  /\ sent[i].model = req.Model
                  /\ sent[i].max_tokens = req.MaxTokens
                  /\ "stream" \in sent[i].members <=> op = "ChatStream")

\* openai Chat with a request of model "m2" and no MaxTokens has returned
\* the message: Stream is false and the body sent has neither "stream" nor
\* "max_tokens".
C28_Witness ==
    /\ variant = "openai"
    /\ op = "Chat"
    /\ pc = "returned"
    /\ result = Nil
    /\ event.ID = "msg1"
    /\ req = [Model |-> "m2", MaxTokens |-> 0]
    /\ reqStream = FALSE
    /\ Len(sent) = 1
    /\ sent[1].members = {"model"}
    /\ sent[1].model = "m2"

\* anthropic ChatStream has returned nil after its deliveries: Stream is
\* true and "stream" went out.
C28_WitnessStream ==
    /\ variant = "anthropic"
    /\ op = "ChatStream"
    /\ pc = "returned"
    /\ result = Nil
    /\ Len(delivered) = 1
    /\ reqStream
    /\ Len(sent) = 1
    /\ sent[1].members = {"model", "max_tokens", "stream"}

----------------------------------------------------------------------------
(* anthropic: lines that are neither `event:` nor `data:` *)

\* A line with bytes in it that starts with neither `event:` nor `data:`.
IsOtherLine(line) ==
    /\ TrimSpace(line) # <<>>
    /\ ~HasPrefix(TrimSpace(line), <<EVENT>>)
    /\ ~HasPrefix(TrimSpace(line), <<DATA>>)

\* A JSON record on a line of its own, without `data:`.
IsBareRecord(line) ==
    /\ Len(line) = 1
    /\ line[1].t = "json"
    /\ line[1].j.syn = "object"

(* C29: anthropic ChatStream does not skip a line that has bytes in it and *)
(* starts with neither `event:` nor `data:`: it decodes the whole trimmed  *)
(* line as the JSON payload.  A JSON record without `data:` is delivered   *)
(* just as the same record after `data: ` is (and ends the call with nil   *)
(* when it is message_stop); any other such line, an `id: 1` field or a    *)
(* `:` comment, ends the call with the decode error of json.Unmarshal and  *)
(* no delivery.                                                            *)
C29_OtherLinesDecoded ==
    (variant = "anthropic" /\ status = 200)
    =>
    /\ \A n \in 1..pos :
          LET line == body.lines[n] IN
          IsOtherLine(line) =>
             IF IsBareRecord(line)
             THEN /\ AnthropicLine(line) = AnthropicLine(Framed(line[1].j))
                  /\ Cardinality(Calls(n)) = 1
                  /\ \A i \in Calls(n) :
                        delivered[i].ev =
                            AnthropicLine(Framed(line[1].j)).calls[1]
                  /\ line[1].j.typeS = "message_stop" =>
                        pc = "returned" /\ result = Nil /\ pos = n
             ELSE /\ Calls(n) = {}
                  /\ pc = "returned"
                  /\ pos = n
                  /\ reads = n
                  /\ result = SyntaxError
    /\ pc = "read" => \A n \in 1..pos : ~IsOtherLine(body.lines[n])
                                         \/ IsBareRecord(body.lines[n])

\* A delta record without `data:` was delivered; the `id: 1` line after it
\* ended the call with the decode error, before the line that follows.
C29_Witness ==
    /\ variant = "anthropic"
    /\ body.lines = <<<<JSON(DeltaDoc)>>, <<ID, SP, TEXT>>, Framed(DeltaDoc)>>
    /\ pc = "returned"
    /\ pos = 2
    /\ Len(delivered) = 1
    /\ delivered[1].ev.kind = "content_block_delta"
    /\ delivered[1].ev.Text = "Hi"
    /\ result = SyntaxError

\* A `:` comment as the first line: the decode error and no delivery.
C29_WitnessComment ==
    /\ variant = "anthropic"
    /\ Len(body.lines) >= 1
    /\ body.lines[1] = <<COLON, SP, TEXT>>
    /\ pc = "returned"
    /\ delivered = <<>>
    /\ result = SyntaxError

----------------------------------------------------------------------------
(* pinecone: validation comes before the request *)

\* A call of CreateIndex or QueryVectors has returned.
PineconeReturned == variant = "pinecone" /\ pc = "returned"

\* A request that fails validation is answered with the validation error
\* (that of Name when Name and Dimension are both wrong) and nothing is sent.
InvalidNotSent ==
    PineconeReturned /\ Validate(op, req) # Nil =>
        /\ result = Validate(op, req)
        /\ sent = <<>>
        /\ status = 0
        /\ closed = 0
        /\ op = "CreateIndex" /\ req.Name = "" =>
              result = Errorf("name is required")
        /\ op = "CreateIndex" /\ req.Name # "" =>
              result = Errorf("dimension must be greater than 0")
        /\ op = "QueryVectors" =>
              result = Errorf("top k must be greater than 0")

C30_WitnessSent ==
    /\ PineconeReturned
    /\ op = "QueryVectors"
    /\ req = [TopK |-> 2, Vector |-> "finite"]
    /\ status = 200
    /\ result = Nil
    /\ sent = <<HTTPRequest("QueryVectors", req)>>

====
